---- MODULE Spec2Model ----
(***************************************************************************)
(* Model of rgl::VertexBufferInst (vertex_buffer_inst.hpp), the growable   *)
(* instance store, together with the part of the graphics context it       *)
(* drives: buffer objects (size, contents, mapping) and buffer bindings;   *)
(* of the move operations of the store; of the ownership of native         *)
(* resource identifiers by the wrapper classes of rgl; and of              *)
(* VertexBufferLayout and the attribute lookup of UniformBuffer; of the     *)
(* renderbuffer held by FrameBuffer (frame_buffer.hpp); of                  *)
(* ShaderProgram::parse_shaders and the cache of uniform locations of      *)
(* ShaderProgram (shader.hpp); and of the frame loop of Application        *)
(* (application.cpp, application.h).                                       *)
(*                                                                         *)
(* Buffer contents are kept as 4-byte words (floats): every offset and     *)
(* length the store passes to the graphics API is a multiple of            *)
(* sizeof(float); buffer sizes are kept in bytes.                          *)
(***************************************************************************)
EXTENDS Integers, Sequences, FiniteSets, TLC

VARIABLES gl, id_, layout_, capacity_, count_, last, crashed, hist,
          stores, mlast, wrappers, names, wlast, ubo, look,
          fbo, fbgl,
          parsed,
          prog,
          app

\* the single store of Spec and SpecGrow
storeVars == <<id_, layout_, capacity_, count_, last, crashed, hist>>

\* the instance stores of SpecMove and the latest operation made on them
moveVars == <<stores, mlast>>

\* the wrapper objects of SpecWrap, the names of the native objects other
\* than buffers, and the latest operation made on a wrapper
wrapVars == <<wrappers, names, wlast>>

\* the uniform buffer of SpecLayout and the latest attribute looked up
layVars == <<ubo, look>>

\* the framebuffer object of SpecFbo and the framebuffer state of the
\* graphics context
fboVars == <<fbo, fbgl>>

\* the shader source handed to parse_shaders in SpecParse and what it returned
parseVars == <<parsed>>

\* the shader program of SpecUniform: its cache of uniform locations, the
\* queries it has made and its latest upload
uniformVars == <<prog>>

\* the application of SpecApp: its layer stack, the position of run() and the
\* calls the layers have received
appVars == <<app>>

\* what the operations of each specification leave alone
others == <<moveVars, wrapVars, layVars, fboVars, parseVars, uniformVars, appVars>>
notMove == <<storeVars, wrapVars, layVars, fboVars, parseVars, uniformVars, appVars>>
notWrap == <<storeVars, moveVars, layVars, fboVars, parseVars, uniformVars, appVars>>
notLayout == <<storeVars, moveVars, wrapVars, fboVars, parseVars, uniformVars, appVars>>
notFbo == <<gl, storeVars, moveVars, layVars, wrappers, wlast, parseVars, uniformVars, appVars>>
notParse == <<gl, storeVars, moveVars, wrapVars, layVars, fboVars, uniformVars, appVars>>
notUniform == <<gl, storeVars, moveVars, wrapVars, layVars, fboVars, parseVars, appVars>>
notApp == <<gl, storeVars, moveVars, wrapVars, layVars, fboVars, parseVars, uniformVars>>

vars == <<gl, id_, layout_, capacity_, count_, last, crashed, hist, others>>

(* ------------------------------ bounds --------------------------------- *)

\* Spec: number of add_instance, update_instance and delete_instance calls
\* made on one store
MaxCalls == 4
\* SpecGrow: number of add_instance and of delete_instance calls made on a
\* store that is filled past its second growth
MaxGrowAdds == 34
MaxGrowDeletes == 1
\* largest number of floats passed to the constructor as initial data
MaxInitFloats == 9
\* number of buffer names the context can hand out
MaxBufs == 3

\* SpecBind and SpecSetLayout: number of add_instance and delete_instance
\* calls made on the store; SpecBind: largest number of floats of the other
\* vertex buffer
MaxBaseCalls == 3
MaxOtherFloats == 2

\* SpecParse: largest number of pieces a shader source is made of
MaxPieces == 5

\* SpecUniform: number of uniform uploads made through the program
MaxUploads == 4

\* SpecApp: number of layers pushed and of frames run() goes through
MaxLayers == 3
MaxFrames == 2

\* SpecMove: number of operations made on the stores, and of add_instance
\* calls among them
MaxMoveCalls == 6
MaxMoveAdds == 3

\* SpecLayout: largest number of attributes of a layout
MaxFields == 2

\* the float values a caller stores
Values == {1, 2}
DefaultValue == CHOOSE v \in Values : \A u \in Values : v <= u

\* a word whose content the graphics API leaves undefined: storage allocated
\* with a null data pointer and not written since. It stands for any value.
Undef == 0

SizeofFloat == 4

(* ------------------------- shader_data_type ----------------------------- *)

U_Type == {"f32", "vec2", "vec3", "vec4", "mat3", "mat4"}

\* shader_data_type::size
RECURSIVE size(_)
size(type) ==
    CASE type = "f32"  -> SizeofFloat
      [] type = "vec2" -> SizeofFloat * 2
      [] type = "vec3" -> SizeofFloat * 3
      [] type = "vec4" -> SizeofFloat * 4
      [] type = "mat3" -> size("vec4") * 3
      [] type = "mat4" -> size("vec4") * 4

(* ------------------------- VertexBufferLayout --------------------------- *)

\* VertexAttribute(type, name): element_count defaults to 1, offset to 0
VertexAttribute(type, name) ==
    [type |-> type, name |-> name, offset |-> 0, element_count |-> 1]

\* the constructor's loop over m_attributes[i..], m_stride being the running
\* sum. offset is a std::uint32_t and m_stride a std::size_t: the narrowing
\* is the identity below 2^32, which no stride of the model reaches.
RECURSIVE LayoutLoop(_, _, _)
LayoutLoop(attrs, i, m_stride) ==
    IF i > Len(attrs)
    THEN [m_stride |-> m_stride, m_attributes |-> attrs]
    ELSE LayoutLoop([attrs EXCEPT ![i].offset = m_stride], i + 1,
                    m_stride + size(attrs[i].type) * attrs[i].element_count)

\* a layout whose constructor iterates over copies of the attributes: every
\* offset keeps its default, 0
VertexBufferLayout_by_value(attributes) ==
    [LayoutLoop(attributes, 1, 0) EXCEPT !.m_attributes = attributes]

\* VertexBufferLayout(std::initializer_list<VertexAttribute>);
\* VertexBufferLayout() is VertexBufferLayout(<< >>): m_stride = 0
VertexBufferLayout(attributes) == LayoutLoop(attributes, 1, 0)

stride(layout) == layout.m_stride

stride_elements(layout) == layout.m_stride \div SizeofFloat

(* ---------------------------- graphics context -------------------------- *)

BufIds == 1..MaxBufs
Targets == {"GL_ARRAY_BUFFER", "GL_COPY_READ_BUFFER", "GL_COPY_WRITE_BUFFER",
            "GL_ELEMENT_ARRAY_BUFFER", "GL_UNIFORM_BUFFER"}

NoMap == << >>

\* a buffer name that was never generated, or was deleted
NoBuffer == [gen |-> FALSE, size |-> 0, data |-> << >>, map |-> NoMap]

GLInit == [bufs |-> [b \in BufIds |-> NoBuffer],
           bind |-> [t \in Targets |-> 0]]

\* glGenBuffers(1, &id): an unused name
GenName(g) == CHOOSE b \in BufIds :
                 /\ ~g.bufs[b].gen
                 /\ \A c \in BufIds : ~g.bufs[c].gen => b <= c

glGenBuffers(g) == [g EXCEPT !.bufs[GenName(g)].gen = TRUE]

glBindBuffer(g, target, id) == [g EXCEPT !.bind[target] = id]

UndefData(nbytes) == [k \in 1..(nbytes \div SizeofFloat) |-> Undef]

\* glBufferData(target, nbytes, data, usage): a new data store of nbytes bytes
\* replaces the old one (and its mapping); data = << >> is the null pointer
glBufferData(g, target, nbytes, data, isNull) ==
    LET b == g.bind[target] IN
    IF b = 0 THEN g
    ELSE [g EXCEPT !.bufs[b].size = nbytes,
                   !.bufs[b].data = IF isNull THEN UndefData(nbytes) ELSE data,
                   !.bufs[b].map  = NoMap]

Overlaps(off1, len1, off2, len2) ==
    /\ len1 > 0 /\ len2 > 0
    /\ off1 < off2 + len2
    /\ off2 < off1 + len1

MapOverlaps(buf, off, len) ==
    /\ buf.map # NoMap
    /\ Overlaps(off, len, buf.map[1], buf.map[2])

\* the error checks of glBufferSubData(target, off, nbytes, data)
SubDataOk(g, target, off, nbytes) ==
    LET b == g.bind[target] IN
    /\ b # 0
    /\ off >= 0 /\ nbytes >= 0
    /\ off + nbytes <= g.bufs[b].size
    /\ ~MapOverlaps(g.bufs[b], off, nbytes)

\* glBufferSubData: on error the command has no effect
glBufferSubData(g, target, off, nbytes, data) ==
    LET b == g.bind[target]
        w == off \div SizeofFloat
    IN  IF ~SubDataOk(g, target, off, nbytes) THEN g
        ELSE [g EXCEPT !.bufs[b].data =
                 [k \in 1..Len(@) |->
                     IF k > w /\ k <= w + Len(data) THEN data[k - w] ELSE @[k]]]

\* the error checks of glCopyBufferSubData(rt, wt, roff, woff, nbytes)
CopyOk(g, rt, wt, roff, woff, nbytes) ==
    LET r == g.bind[rt]
        w == g.bind[wt]
    IN  /\ r # 0 /\ w # 0
        /\ roff + nbytes <= g.bufs[r].size
        /\ woff + nbytes <= g.bufs[w].size
        /\ g.bufs[r].map = NoMap /\ g.bufs[w].map = NoMap
        /\ ~(r = w /\ Overlaps(roff, nbytes, woff, nbytes))

glCopyBufferSubData(g, rt, wt, roff, woff, nbytes) ==
    LET r  == g.bind[rt]
        w  == g.bind[wt]
        ro == roff \div SizeofFloat
        wo == woff \div SizeofFloat
        n  == nbytes \div SizeofFloat
    IN  IF ~CopyOk(g, rt, wt, roff, woff, nbytes) THEN g
        ELSE [g EXCEPT !.bufs[w].data =
                 [k \in 1..Len(@) |->
                     IF k > wo /\ k <= wo + n
                     THEN g.bufs[r].data[k - wo + ro] ELSE @[k]]]

\* glDeleteBuffers(1, &id): the name is freed and every binding of it in the
\* context reverts to 0
glDeleteBuffers(g, id) ==
    IF id = 0 THEN g
    ELSE [g EXCEPT !.bufs[id] = NoBuffer,
                   !.bind = [t \in Targets |-> IF @[t] = id THEN 0 ELSE @[t]]]

\* the error checks of glMapBufferRange(target, off, len, access)
MapOk(g, target, off, len) ==
    LET b == g.bind[target] IN
    /\ b # 0
    /\ off >= 0 /\ len > 0
    /\ off + len <= g.bufs[b].size
    /\ g.bufs[b].map = NoMap

\* glMapBufferRange: a null pointer is returned on error
glMapBufferRange(g, target, off, len) ==
    IF MapOk(g, target, off, len)
    THEN [g EXCEPT !.bufs[g.bind[target]].map = <<off, len>>]
    ELSE g

glUnmapBuffer(g, target) ==
    LET b == g.bind[target] IN
    IF b = 0 \/ g.bufs[b].map = NoMap THEN g
    ELSE [g EXCEPT !.bufs[b].map = NoMap]

(* ---------------------------- VertexBufferInst -------------------------- *)

size_bytes(span) == Len(span) * SizeofFloat

\* floor(sqrt(5) * c); sqrt(5) lies between 2 and 3
FloorSqrt5(c) == CHOOSE r \in (2 * c)..(3 * c) :
                    r * r <= 5 * c * c /\ (r + 1) * (r + 1) > 5 * c * c

\* static_cast<size_t>(static_cast<double>(capacity) * std::numbers::phi),
\* phi = (1 + sqrt(5)) / 2; exact for the capacities of the model
TimesPhi(capacity) == (capacity + FloorSqrt5(capacity)) \div 2

\* the factor of the second growth step
RampRecords == 32

\* calc_capacity with the usual doubling in place of the golden ratio
calc_capacity_doubling(capacity, instance_size) ==
    IF capacity = 0 THEN instance_size
    ELSE IF capacity = instance_size THEN instance_size * RampRecords
    ELSE capacity * 2

calc_capacity(capacity, instance_size) ==
    IF capacity = 0 THEN instance_size
    ELSE IF capacity = instance_size THEN instance_size * RampRecords
    ELSE TimesPhi(capacity)

\* resize_buffer with the scratch buffer allocated at the new capacity
resize_steps_scratch_of_new_capacity(g, id, count, layout, old_capacity, new_capacity) ==
    LET new_id == GenName(g)
        g1  == glGenBuffers(g)
        g2  == glBindBuffer(g1, "GL_COPY_WRITE_BUFFER", new_id)
        g3  == glBufferData(g2, "GL_COPY_WRITE_BUFFER", new_capacity, << >>, TRUE)
        g4  == glBindBuffer(g3, "GL_COPY_READ_BUFFER", id)
        g5  == glCopyBufferSubData(g4, "GL_COPY_READ_BUFFER", "GL_COPY_WRITE_BUFFER",
                                   0, 0, count * stride(layout))
        g6  == glBindBuffer(g5, "GL_COPY_WRITE_BUFFER", id)
        g7  == glBufferData(g6, "GL_COPY_WRITE_BUFFER", new_capacity, << >>, TRUE)
        g8  == glBindBuffer(g7, "GL_COPY_READ_BUFFER", new_id)
        g9  == glCopyBufferSubData(g8, "GL_COPY_READ_BUFFER", "GL_COPY_WRITE_BUFFER",
                                   0, 0, count * stride(layout))
        g10 == glDeleteBuffers(g9, new_id)
        g11 == glBindBuffer(g10, "GL_ARRAY_BUFFER", id)
    IN  <<g1, g2, g3, g4, g5, g6, g7, g8, g9, g10, g11>>

\* the statements of resize_buffer in order: the context after each of its
\* eleven calls
resize_steps(g, id, count, layout, old_capacity, new_capacity) ==
    LET new_id == GenName(g)
        g1  == glGenBuffers(g)
        g2  == glBindBuffer(g1, "GL_COPY_WRITE_BUFFER", new_id)
        g3  == glBufferData(g2, "GL_COPY_WRITE_BUFFER", old_capacity, << >>, TRUE)
        g4  == glBindBuffer(g3, "GL_COPY_READ_BUFFER", id)
        g5  == glCopyBufferSubData(g4, "GL_COPY_READ_BUFFER", "GL_COPY_WRITE_BUFFER",
                                   0, 0, count * stride(layout))
        g6  == glBindBuffer(g5, "GL_COPY_WRITE_BUFFER", id)
        g7  == glBufferData(g6, "GL_COPY_WRITE_BUFFER", new_capacity, << >>, TRUE)
        g8  == glBindBuffer(g7, "GL_COPY_READ_BUFFER", new_id)
        g9  == glCopyBufferSubData(g8, "GL_COPY_READ_BUFFER", "GL_COPY_WRITE_BUFFER",
                                   0, 0, count * stride(layout))
        g10 == glDeleteBuffers(g9, new_id)
        g11 == glBindBuffer(g10, "GL_ARRAY_BUFFER", id)
    IN  <<g1, g2, g3, g4, g5, g6, g7, g8, g9, g10, g11>>

\* resize_buffer that returns without deleting the buffer it generated
resize_buffer_keeps_scratch(g, id, count, layout, old_capacity, new_capacity) ==
    LET steps == resize_steps(g, id, count, layout, old_capacity, new_capacity)
    IN  glBindBuffer(steps[9], "GL_ARRAY_BUFFER", id)

\* resize_buffer: the context its last statement leaves
resize_buffer(g, id, count, layout, old_capacity, new_capacity) ==
    LET steps == resize_steps(g, id, count, layout, old_capacity, new_capacity)
    IN  steps[Len(steps)]

\* update_instance: the byte offset is index * instance_data.size_bytes()
update_instance(g, id, index, instance_data) ==
    glBufferSubData(glBindBuffer(g, "GL_ARRAY_BUFFER", id), "GL_ARRAY_BUFFER",
                    index * size_bytes(instance_data), size_bytes(instance_data),
                    instance_data)

\* the condition under which add_instance grows the buffer
must_grow(count, layout, capacity) == (count + 1) * stride(layout) > capacity

\* add_instance that returns after growing the buffer, the record not appended
add_instance_grow_only(st, instance_data) ==
    LET grow == must_grow(st.count, st.layout, st.capacity)
        new_capacity == calc_capacity(st.capacity, stride(st.layout))
    IN  IF grow
        THEN [st EXCEPT !.gl = resize_buffer(st.gl, st.id, st.count, st.layout,
                                             st.capacity, new_capacity),
                        !.capacity = new_capacity]
        ELSE [st EXCEPT !.gl = update_instance(st.gl, st.id, st.count, instance_data),
                        !.count = @ + 1]

\* add_instance on the store st = [gl, id, layout, capacity, count]
add_instance(st, instance_data) ==
    LET grow == must_grow(st.count, st.layout, st.capacity)
        new_capacity == calc_capacity(st.capacity, stride(st.layout))
        g1 == IF grow
              THEN resize_buffer(st.gl, st.id, st.count, st.layout,
                                 st.capacity, new_capacity)
              ELSE st.gl
    IN  [st EXCEPT !.gl = update_instance(g1, st.id, st.count, instance_data),
                   !.capacity = IF grow THEN new_capacity ELSE @,
                   !.count = @ + 1]

\* the early return of delete_instance with index > count for index >= count
delete_out_of_range_off_by_one(index, count) == index > count \/ index < 0

\* the early return of delete_instance
delete_out_of_range(index, count) == index >= count \/ index < 0

\* the words the pointer returned by glMapBufferRange gives access to
MappedWords(g, target, off, n) ==
    LET b == g.bind[target]
        w == off \div SizeofFloat
    IN  [k \in 1..n |-> g.bufs[b].data[w + k]]

\* delete_instance past its early return: the outcomes [st, crashed].
\* When glMapBufferRange fails the span is built on a null pointer; if
\* glBufferSubData then accepts the range it reads through that pointer, which
\* is undefined behaviour: the process dies, or undefined words are written.
delete_in_range(st, index) ==
    LET off   == (st.count - 1) * stride(st.layout)
        n     == stride_elements(st.layout)
        ok    == MapOk(st.gl, "GL_ARRAY_BUFFER", off, stride(st.layout))
        g1    == glMapBufferRange(st.gl, "GL_ARRAY_BUFFER", off, stride(st.layout))
        bound == glBindBuffer(g1, "GL_ARRAY_BUFFER", st.id)
        nullread == /\ ~ok /\ n > 0
                    /\ SubDataOk(bound, "GL_ARRAY_BUFFER",
                                 index * n * SizeofFloat, n * SizeofFloat)
        last_instance == IF ok THEN MappedWords(st.gl, "GL_ARRAY_BUFFER", off, n)
                         ELSE [k \in 1..n |-> Undef]
        g2    == update_instance(g1, st.id, index, last_instance)
        g3    == glUnmapBuffer(g2, "GL_ARRAY_BUFFER")
        done  == [st EXCEPT !.gl = g3, !.count = @ - 1]
    IN  IF nullread
        THEN {[st |-> done, crashed |-> FALSE], [st |-> st, crashed |-> TRUE]}
        ELSE {[st |-> done, crashed |-> FALSE]}

\* VertexBuffer(vertices, layout, hint): the outcome [gl, id]
VertexBuffer(g, vertices) ==
    LET id == GenName(g)
        g1 == glGenBuffers(g)
        g2 == glBindBuffer(g1, "GL_ARRAY_BUFFER", id)
    IN  [gl |-> glBufferData(g2, "GL_ARRAY_BUFFER", size_bytes(vertices),
                             vertices, FALSE),
         id |-> id]

\* a constructor that reserves room for one record when given no data
VertexBufferInst_one_record(g, instance_data, layout) ==
    LET base == VertexBuffer(g, instance_data)
    IN  [gl |-> base.gl, id |-> base.id, layout |-> layout,
         capacity |-> IF Len(instance_data) = 0 THEN stride(layout)
                      ELSE Len(instance_data),
         count |-> 0]

\* VertexBufferInst(instance_data, layout): count_ keeps its default, 0
VertexBufferInst(g, instance_data, layout) ==
    LET base == VertexBuffer(g, instance_data)
    IN  [gl |-> base.gl, id |-> base.id, layout |-> layout,
         capacity |-> Len(instance_data), count |-> 0]

instance_count(st) == st.count
instance_size(st) == stride(st.layout)
capacity(st) == st.capacity

\* VertexBuffer::set_layout, inherited by VertexBufferInst
set_layout(st, layout) == [st EXCEPT !.layout = layout]

\* VertexBuffer::bind and VertexBuffer::unbind
VertexBuffer_bind(g, id) == glBindBuffer(g, "GL_ARRAY_BUFFER", id)

VertexBuffer_unbind(g) == glBindBuffer(g, "GL_ARRAY_BUFFER", 0)

\* VertexBuffer::~VertexBuffer
VertexBuffer_dtor(g, id) == IF id # 0 THEN glDeleteBuffers(g, id) ELSE g

\* the layout a VertexBufferLayout is left with when it was moved from: the
\* attribute vector is empty, m_stride is a plain copy
MovedFromLayout(layout) == [layout EXCEPT !.m_attributes = << >>]

\* VertexBuffer(VertexBuffer&& other): the outcome [self, other]
VertexBuffer_move(other) ==
    [self  |-> [id |-> other.id, layout |-> other.layout],
     other |-> [other EXCEPT !.id = 0, !.layout = MovedFromLayout(@)]]

\* VertexBuffer::operator=(VertexBuffer&& other) when this != &other:
\* the outcome [gl, self, other]; layout_ = other.layout_ is a copy
VertexBuffer_move_assign(g, self, other) ==
    [gl    |-> glDeleteBuffers(g, self.id),
     self  |-> [self EXCEPT !.id = other.id, !.layout = other.layout],
     other |-> [other EXCEPT !.id = 0]]

\* a move constructor that leaves the source its handle
VertexBufferInst_move_shares_handle(other) ==
    [self  |-> [id |-> other.id, layout |-> other.layout,
                capacity |-> other.capacity, count |-> other.count],
     other |-> other]

\* VertexBufferInst(VertexBufferInst&&) = default: the base is moved, then
\* capacity_ and count_ are copied
VertexBufferInst_move(other) ==
    LET base == VertexBuffer_move(other)
    IN  [self  |-> [id |-> base.self.id, layout |-> base.self.layout,
                    capacity |-> other.capacity, count |-> other.count],
         other |-> base.other]

\* VertexBufferInst::operator=(VertexBufferInst&&) = default,
\* this != &other: the outcome [gl, self, other]
VertexBufferInst_move_assign(g, self, other) ==
    LET base == VertexBuffer_move_assign(g, self, other)
    IN  [gl    |-> base.gl,
         self  |-> [base.self EXCEPT !.capacity = other.capacity,
                                     !.count = other.count],
         other |-> base.other]

(* ---------------------------- wrapper classes --------------------------- *)

\* The classes that wrap a native object, reduced to the data member id_
\* (and layout_ for VertexBuffer). The container members of VertexArray
\* (vertex_buffers_, instanced_vbo_, index_buffer_) and of FrameBuffer
\* (renderbuffer_) are empty as long as only construction, copy, move,
\* assignment and destruction are used, and moving them then has no effect.
WrapperClasses == {"VertexBuffer", "IndexBuffer", "UniformBuffer", "VertexArray",
                   "FrameBuffer", "RenderBuffer", "Texture2D", "ShaderProgram"}

\* the kinds of native object other than buffers; each has its own names
Kinds == {"vertex_array", "framebuffer", "renderbuffer", "texture", "program"}

KindOf(cls) ==
    CASE cls = "VertexArray"   -> "vertex_array"
      [] cls = "FrameBuffer"   -> "framebuffer"
      [] cls = "RenderBuffer"  -> "renderbuffer"
      [] cls = "Texture2D"     -> "texture"
      [] cls = "ShaderProgram" -> "program"
      [] OTHER                 -> "buffer"

NamesInit == [k \in Kinds |-> [i \in BufIds |-> FALSE]]

\* glGenVertexArrays, glGenFramebuffers, glGenRenderbuffers, glGenTextures,
\* glCreateProgram: an unused name of the kind
NewName(n, kind) == CHOOSE i \in BufIds :
                       /\ ~n[kind][i]
                       /\ \A j \in BufIds : ~n[kind][j] => i <= j

glGen(n, kind) == [n EXCEPT ![kind][NewName(n, kind)] = TRUE]

\* glDeleteVertexArrays, glDeleteFramebuffers, glDeleteRenderbuffers,
\* glDeleteTextures, glDeleteProgram: the name 0 is silently ignored
glDelete(n, kind, id) == IF id = 0 THEN n ELSE [n EXCEPT ![kind][id] = FALSE]

\* the operations below take and return the context c = [gl, names]

\* VertexBuffer(vertices): layout_ is VertexBufferLayout{}
VertexBuffer_ctor(c, vertices) ==
    LET base == VertexBuffer(c.gl, vertices)
    IN  [c |-> [c EXCEPT !.gl = base.gl],
         self |-> [id |-> base.id, layout |-> VertexBufferLayout(<< >>)]]

\* IndexBuffer(indices)
IndexBuffer_ctor(c, indices) ==
    LET id == GenName(c.gl)
        g1 == glGenBuffers(c.gl)
        g2 == glBindBuffer(g1, "GL_ELEMENT_ARRAY_BUFFER", id)
        g3 == glBufferData(g2, "GL_ELEMENT_ARRAY_BUFFER", size_bytes(indices),
                           indices, FALSE)
    IN  [c |-> [c EXCEPT !.gl = g3], self |-> [id |-> id]]

IndexBuffer_dtor(c, self) ==
    IF self.id # 0 THEN [c EXCEPT !.gl = glDeleteBuffers(@, self.id)] ELSE c

IndexBuffer_move(other) ==
    [self |-> [id |-> other.id], other |-> [other EXCEPT !.id = 0]]

\* IndexBuffer::operator=(IndexBuffer&&), this != &other
IndexBuffer_move_assign(c, self, other) ==
    [c |-> c, self |-> [self EXCEPT !.id = other.id],
     other |-> [other EXCEPT !.id = 0]]

\* UniformBuffer(contents, layout, binding_point); the indexed binding points
\* of glBindBufferBase are not part of the context of the model
UniformBuffer_ctor(c, contents) ==
    LET id == GenName(c.gl)
        g1 == glGenBuffers(c.gl)
        g2 == glBindBuffer(g1, "GL_UNIFORM_BUFFER", id)
        g3 == glBufferData(g2, "GL_UNIFORM_BUFFER", size_bytes(contents),
                           contents, FALSE)
        g4 == glBindBuffer(g3, "GL_UNIFORM_BUFFER", 0)
    IN  [c |-> [c EXCEPT !.gl = g4], self |-> [id |-> id]]

UniformBuffer_dtor(c, self) ==
    IF self.id # 0 THEN [c EXCEPT !.gl = glDeleteBuffers(@, self.id)] ELSE c

UniformBuffer_move(other) ==
    [self |-> [id |-> other.id], other |-> [other EXCEPT !.id = 0]]

\* UniformBuffer::operator=(UniformBuffer&&), this != &other
UniformBuffer_move_assign(c, self, other) ==
    [c |-> [c EXCEPT !.gl = glDeleteBuffers(@, self.id)],
     self |-> [self EXCEPT !.id = other.id],
     other |-> [other EXCEPT !.id = 0]]

\* VertexArray()
VertexArray_ctor(c) ==
    [c |-> [c EXCEPT !.names = glGen(@, "vertex_array")],
     self |-> [id |-> NewName(c.names, "vertex_array")]]

\* ~VertexArray(): glDeleteVertexArrays whatever id_ is
VertexArray_dtor(c, self) ==
    [c EXCEPT !.names = glDelete(@, "vertex_array", self.id)]

VertexArray_move(other) ==
    [self |-> [id |-> other.id], other |-> [other EXCEPT !.id = 0]]

\* VertexArray::operator=(VertexArray&&), this != &other
VertexArray_move_assign(c, self, other) ==
    [c |-> c, self |-> [self EXCEPT !.id = other.id],
     other |-> [other EXCEPT !.id = 0]]

\* FrameBuffer()
FrameBuffer_ctor(c) ==
    [c |-> [c EXCEPT !.names = glGen(@, "framebuffer")],
     self |-> [id |-> NewName(c.names, "framebuffer")]]

FrameBuffer_dtor(c, self) ==
    IF self.id # 0
    THEN [c EXCEPT !.names = glDelete(@, "framebuffer", self.id)] ELSE c

FrameBuffer_move(other) ==
    [self |-> [id |-> other.id], other |-> [other EXCEPT !.id = 0]]

\* FrameBuffer::operator=(FrameBuffer&&), this != &other
FrameBuffer_move_assign(c, self, other) ==
    [c |-> c, self |-> [self EXCEPT !.id = other.id],
     other |-> [other EXCEPT !.id = 0]]

\* RenderBuffer(res, type, samples): the renderbuffer binding is 0 again
\* when the constructor returns
RenderBuffer_ctor(c) ==
    [c |-> [c EXCEPT !.names = glGen(@, "renderbuffer")],
     self |-> [id |-> NewName(c.names, "renderbuffer")]]

RenderBuffer_dtor(c, self) ==
    IF self.id # 0
    THEN [c EXCEPT !.names = glDelete(@, "renderbuffer", self.id)] ELSE c

RenderBuffer_move(other) ==
    [self |-> [id |-> other.id], other |-> [other EXCEPT !.id = 0]]

\* RenderBuffer::operator=(RenderBuffer&&), this != &other
RenderBuffer_move_assign(c, self, other) ==
    [c |-> c, self |-> [self EXCEPT !.id = other.id],
     other |-> [other EXCEPT !.id = 0]]

\* Texture2D(data, res, color, filters, ...): the texture binding is 0 again
\* when the constructor returns
Texture2D_ctor(c) ==
    [c |-> [c EXCEPT !.names = glGen(@, "texture")],
     self |-> [id |-> NewName(c.names, "texture")]]

Texture2D_dtor(c, self) ==
    IF self.id # 0
    THEN [c EXCEPT !.names = glDelete(@, "texture", self.id)] ELSE c

Texture2D_move(other) ==
    [self |-> [id |-> other.id], other |-> [other EXCEPT !.id = 0]]

\* Texture2D::operator=(Texture2D&&), this != &other
Texture2D_move_assign(c, self, other) ==
    [c |-> c, self |-> [self EXCEPT !.id = other.id],
     other |-> [other EXCEPT !.id = 0]]

\* ShaderProgram::create_program: the outcome [names, id]; a program that
\* does not link or validate is deleted and 0 is returned
create_program(n, linked) ==
    LET program == NewName(n, "program")
        n1 == glGen(n, "program")
    IN  IF ~linked
        THEN [names |-> glDelete(n1, "program", program), id |-> 0]
        ELSE [names |-> n1, id |-> program]

\* ShaderProgram(name, path)
ShaderProgram_ctor(c, linked) ==
    LET p == create_program(c.names, linked)
    IN  [c |-> [c EXCEPT !.names = p.names], self |-> [id |-> p.id]]

\* ~ShaderProgram(): glDeleteProgram whatever id_ is
ShaderProgram_dtor(c, self) ==
    [c EXCEPT !.names = glDelete(@, "program", self.id)]

\* ShaderProgram(const ShaderProgram&) = default
ShaderProgram_copy(other) == [id |-> other.id]

\* ShaderProgram::operator=(const ShaderProgram&) = default
ShaderProgram_copy_assign(self, other) == [self EXCEPT !.id = other.id]

ShaderProgram_move(other) ==
    [self |-> [id |-> other.id], other |-> [other EXCEPT !.id = 0]]

\* ShaderProgram::operator=(ShaderProgram&&), this != &other
ShaderProgram_move_assign(c, self, other) ==
    [c |-> c, self |-> [self EXCEPT !.id = other.id],
     other |-> [other EXCEPT !.id = 0]]

\* IndexBuffer() = default, Texture2D() = default, ShaderProgram() = default
DefaultConstructible == {"IndexBuffer", "Texture2D", "ShaderProgram"}

DefaultMembers == [id |-> 0]

\* the classes with a copy constructor and a copy assignment that are not
\* deleted
Copyable == {"ShaderProgram"}

\* the operations of class cls
Ctor(cls, c, linked) ==
    CASE cls = "VertexBuffer"  -> VertexBuffer_ctor(c, << >>)
      [] cls = "IndexBuffer"   -> IndexBuffer_ctor(c, << >>)
      [] cls = "UniformBuffer" -> UniformBuffer_ctor(c, << >>)
      [] cls = "VertexArray"   -> VertexArray_ctor(c)
      [] cls = "FrameBuffer"   -> FrameBuffer_ctor(c)
      [] cls = "RenderBuffer"  -> RenderBuffer_ctor(c)
      [] cls = "Texture2D"     -> Texture2D_ctor(c)
      [] cls = "ShaderProgram" -> ShaderProgram_ctor(c, linked)

Dtor(cls, c, self) ==
    CASE cls = "VertexBuffer"  -> [c EXCEPT !.gl = VertexBuffer_dtor(@, self.id)]
      [] cls = "IndexBuffer"   -> IndexBuffer_dtor(c, self)
      [] cls = "UniformBuffer" -> UniformBuffer_dtor(c, self)
      [] cls = "VertexArray"   -> VertexArray_dtor(c, self)
      [] cls = "FrameBuffer"   -> FrameBuffer_dtor(c, self)
      [] cls = "RenderBuffer"  -> RenderBuffer_dtor(c, self)
      [] cls = "Texture2D"     -> Texture2D_dtor(c, self)
      [] cls = "ShaderProgram" -> ShaderProgram_dtor(c, self)

MoveCtor(cls, other) ==
    CASE cls = "VertexBuffer"  -> VertexBuffer_move(other)
      [] cls = "IndexBuffer"   -> IndexBuffer_move(other)
      [] cls = "UniformBuffer" -> UniformBuffer_move(other)
      [] cls = "VertexArray"   -> VertexArray_move(other)
      [] cls = "FrameBuffer"   -> FrameBuffer_move(other)
      [] cls = "RenderBuffer"  -> RenderBuffer_move(other)
      [] cls = "Texture2D"     -> Texture2D_move(other)
      [] cls = "ShaderProgram" -> ShaderProgram_move(other)

MoveAssign(cls, c, self, other) ==
    CASE cls = "VertexBuffer"  ->
             LET m == VertexBuffer_move_assign(c.gl, self, other)
             IN  [c |-> [c EXCEPT !.gl = m.gl], self |-> m.self, other |-> m.other]
      [] cls = "IndexBuffer"   -> IndexBuffer_move_assign(c, self, other)
      [] cls = "UniformBuffer" -> UniformBuffer_move_assign(c, self, other)
      [] cls = "VertexArray"   -> VertexArray_move_assign(c, self, other)
      [] cls = "FrameBuffer"   -> FrameBuffer_move_assign(c, self, other)
      [] cls = "RenderBuffer"  -> RenderBuffer_move_assign(c, self, other)
      [] cls = "Texture2D"     -> Texture2D_move_assign(c, self, other)
      [] cls = "ShaderProgram" -> ShaderProgram_move_assign(c, self, other)

(* ------------------- UniformBuffer: attributes by name ------------------ *)

\* shader_data_type::ShaderArrayType and its static_cast to U_Type in
\* VertexAttribute(ShaderArrayType, name, element_count): both enumerations
\* list their members in the same order
ShaderArrayType == {"f32_arr", "vec2_arr", "vec3_arr", "vec4_arr", "mat3_arr",
                    "mat4_arr"}

ToUType(in_type) ==
    CASE in_type = "f32_arr"  -> "f32"
      [] in_type = "vec2_arr" -> "vec2"
      [] in_type = "vec3_arr" -> "vec3"
      [] in_type = "vec4_arr" -> "vec4"
      [] in_type = "mat3_arr" -> "mat3"
      [] in_type = "mat4_arr" -> "mat4"

\* VertexAttribute(ShaderArrayType in_type, name, element_count)
VertexAttributeArr(in_type, name, element_count) ==
    [type |-> ToUType(in_type), name |-> name, offset |-> 0,
     element_count |-> element_count]

\* the constructor's loop that fills attr_cache_: emplace keeps the first
\* attribute of a name; the cache maps a name to the position, in
\* layout_.m_attributes, of the attribute it refers to
RECURSIVE CacheLoop(_, _, _)
CacheLoop(attrs, i, cache) ==
    IF i > Len(attrs) THEN cache
    ELSE CacheLoop(attrs, i + 1,
                   IF attrs[i].name \in DOMAIN cache THEN cache
                   ELSE cache @@ (attrs[i].name :> i))

EmptyCache == [name \in {} |-> 0]

\* UniformBuffer(layout, binding_point): the outcome [gl, self]
UniformBuffer_ctor_layout(g, layout) ==
    LET id == GenName(g)
        g1 == glGenBuffers(g)
        g2 == glBindBuffer(g1, "GL_UNIFORM_BUFFER", id)
        g3 == glBufferData(g2, "GL_UNIFORM_BUFFER", stride(layout), << >>, TRUE)
        g4 == glBindBuffer(g3, "GL_UNIFORM_BUFFER", 0)
    IN  [gl |-> g4,
         self |-> [id |-> id, layout |-> layout,
                   attr_cache |-> CacheLoop(layout.m_attributes, 1, EmptyCache)]]

\* a lookup that yields a default attribute for a name the cache does not
\* hold, and does not throw
attr_cache_at_or_default(self, name) ==
    IF name \in DOMAIN self.attr_cache
    THEN [thrown |-> FALSE, attr |-> self.layout.m_attributes[self.attr_cache[name]]]
    ELSE [thrown |-> FALSE, attr |-> VertexAttribute("f32", "")]

\* attr_cache_.at(name): std::out_of_range is thrown for a name it does not
\* hold
attr_cache_at(self, name) ==
    IF name \in DOMAIN self.attr_cache
    THEN [thrown |-> FALSE, attr |-> self.layout.m_attributes[self.attr_cache[name]]]
    ELSE [thrown |-> TRUE, attr |-> VertexAttribute("f32", "")]

\* set_attribute_data(uniform_data, name), that is
\* set_attribute_data(uniform_data, name, 0): the outcome [gl, thrown, attr]
set_attribute_data_name(g, self, uniform_data, name) ==
    LET at == attr_cache_at(self, name)
    IN  [gl |-> IF at.thrown THEN g
                ELSE glBufferSubData(g, "GL_UNIFORM_BUFFER",
                                     at.attr.offset + 0 * SizeofFloat,
                                     size_bytes(uniform_data), uniform_data),
         thrown |-> at.thrown, attr |-> at.attr]

\* set_attribute_data(uniform_data, attribute_index), that is
\* set_attribute_data(uniform_data, attribute_index, 0), for an index the
\* layout has; attribute_index counts from 0
set_attribute_data_index(g, self, uniform_data, attribute_index) ==
    LET attr == self.layout.m_attributes[attribute_index + 1]
    IN  [gl |-> glBufferSubData(g, "GL_UNIFORM_BUFFER",
                                attr.offset + 0 * SizeofFloat,
                                size_bytes(uniform_data), uniform_data),
         thrown |-> FALSE, attr |-> attr]

(* ---------------------- FrameBuffer: the renderbuffer ------------------- *)

\* enum class FboAttachment
FboAttachment == {"NONE", "ATTACH_DEPTH_BUFFER", "ATTACH_STENCIL_BUFFER",
                  "ATTACH_DEPTH_STENCIL_BUFFER"}

\* enum class RenderBuffer::AttachmentType
AttachmentType == {"depth", "stencil", "depth_stencil"}

\* the switches of set_renderbuffer, for the attachments other than NONE
TypeOf(attachment) ==
    CASE attachment = "ATTACH_DEPTH_BUFFER"         -> "depth"
      [] attachment = "ATTACH_STENCIL_BUFFER"       -> "stencil"
      [] attachment = "ATTACH_DEPTH_STENCIL_BUFFER" -> "depth_stencil"

\* the framebuffer state of the context: the framebuffer bound to
\* GL_FRAMEBUFFER and, for each framebuffer object, the renderbuffer attached
\* at each attachment point (0: none)
NoAttachments == [t \in AttachmentType |-> 0]

FbGLInit == [bound |-> 0, att |-> [f \in BufIds |-> NoAttachments]]

glBindFramebuffer(fg, id) == [fg EXCEPT !.bound = id]

\* glFramebufferRenderbuffer(GL_FRAMEBUFFER, type, GL_RENDERBUFFER, rb):
\* GL_INVALID_OPERATION, and no effect, when the default framebuffer is bound
glFramebufferRenderbuffer(fg, type, rb) ==
    IF fg.bound = 0 THEN fg
    ELSE [fg EXCEPT !.att[fg.bound][type] = rb]

\* what glDeleteRenderbuffers does to the framebuffer state: the renderbuffer
\* is detached from the framebuffer that is bound, and from no other
DetachDeleted(fg, rb) ==
    IF fg.bound = 0 \/ rb = 0 THEN fg
    ELSE [fg EXCEPT !.att[fg.bound] =
              [t \in AttachmentType |-> IF @[t] = rb THEN 0 ELSE @[t]]]

\* std::optional<RenderBuffer>: has is has_value(), id the id_ of the value
NoRenderbuffer == [has |-> FALSE, id |-> 0]

\* renderbuffer_.emplace(res, type, samples): the value held is destroyed,
\* then the new one is constructed; the outcome [names, fg, renderbuffer]
emplace(n, fg, renderbuffer) ==
    LET c0   == [gl |-> GLInit, names |-> n]
        c1   == IF renderbuffer.has
                THEN RenderBuffer_dtor(c0, [id |-> renderbuffer.id]) ELSE c0
        fg1  == IF renderbuffer.has THEN DetachDeleted(fg, renderbuffer.id) ELSE fg
        made == RenderBuffer_ctor(c1)
    IN  [names |-> made.c.names, fg |-> fg1,
         renderbuffer |-> [has |-> TRUE, id |-> made.self.id]]

\* FrameBuffer::set_renderbuffer(res, attachment, samples) on the object
\* self = [id_, attachment_, renderbuffer_]: the outcome [names, fg, self].
\* The resolution and the sample count only size the storage.
set_renderbuffer(n, fg, self, attachment) ==
    IF attachment # "NONE"
    THEN LET e == emplace(n, fg, self.renderbuffer_)
         IN  [names |-> e.names,
              fg    |-> glFramebufferRenderbuffer(e.fg, TypeOf(attachment),
                                                  e.renderbuffer.id),
              self  |-> [self EXCEPT !.attachment_ = attachment,
                                     !.renderbuffer_ = e.renderbuffer]]
    ELSE IF self.attachment_ = "NONE"
    THEN [names |-> n, fg |-> fg, self |-> self]
    ELSE [names |-> n,
          fg    |-> glFramebufferRenderbuffer(fg, TypeOf(self.attachment_), 0),
          self  |-> [self EXCEPT !.attachment_ = "NONE"]]

get_renderbuffer(self) == self.renderbuffer_

attachment(self) == self.attachment_

(* ------------------------ ShaderProgram: parse_shaders ------------------ *)

\* A string is the sequence of its characters; positions count from 0 as in
\* the code. NPos stands for std::string::npos, the largest size_t: every
\* other position of the model is far below it.
NPos == 2147483647

LF == "LF"
CR == "CR"

type_token == <<"#", "t", "y", "p", "e">>

\* a - b in size_t: a negative difference wraps around to a value just
\* below NPos
SizeDiff(a, b) == IF a >= b THEN a - b ELSE NPos - (b - a) + 1

SmallestOf(positions) ==
    IF positions = {} THEN NPos
    ELSE CHOOSE i \in positions : \A j \in positions : i <= j

\* std::string_view::find(token, from)
find(source, token, from) ==
    SmallestOf({i \in from..(Len(source) - Len(token)) :
                    SubSeq(source, i + 1, i + Len(token)) = token})

\* std::string_view::find_first_of(chars, from)
find_first_of(source, chars, from) ==
    SmallestOf({i \in from..(Len(source) - 1) : source[i + 1] \in chars})

\* std::string_view::find_first_not_of(chars, from)
find_first_not_of(source, chars, from) ==
    SmallestOf({i \in from..(Len(source) - 1) : source[i + 1] \notin chars})

\* std::string_view::substr(pos, count) throws std::out_of_range when
\* pos > size()
substr_throws(source, pos) == pos > Len(source)

substr(source, pos, count) ==
    LET rlen == IF count < Len(source) - pos THEN count ELSE Len(source) - pos
    IN  SubSeq(source, pos + 1, pos + rlen)

\* enum class ShaderType, the enumerators string_to_shader_type knows
ShaderTypeNames ==
    [vertex       |-> <<"v", "e", "r", "t", "e", "x">>,
     fragment     |-> <<"f", "r", "a", "g", "m", "e", "n", "t">>,
     tess_control |-> <<"t", "e", "s", "s", "_", "c", "o", "n", "t", "r", "o", "l">>,
     tess_eval    |-> <<"t", "e", "s", "s", "_", "e", "v", "a", "l">>,
     geometry     |-> <<"g", "e", "o", "m", "e", "t", "r", "y">>]

\* string_to_shader_type: the outcome [has_value, value]
string_to_shader_type(str) ==
    IF \E t \in DOMAIN ShaderTypeNames : ShaderTypeNames[t] = str
    THEN [has_value |-> TRUE,
          value |-> CHOOSE t \in DOMAIN ShaderTypeNames : ShaderTypeNames[t] = str]
    ELSE [has_value |-> FALSE, value |-> "vertex"]

\* what parse_shaders returns, or the exception that leaves it
Returned(shaders) == [thrown |-> FALSE, shaders |-> shaders]
OutOfRange == [thrown |-> TRUE, shaders |-> << >>]

\* the while loop of parse_shaders, entered with pos and the shaders pushed
\* so far
RECURSIVE ParseLoop(_, _, _)
ParseLoop(source, pos, shaders) ==
    IF pos = NPos THEN Returned(shaders)
    ELSE
    LET eol           == find_first_of(source, {CR, LF}, pos)
        begin         == pos + Len(type_token) + 1
        next_line_pos == find_first_not_of(source, {CR, LF}, eol)
    IN  IF substr_throws(source, begin) THEN OutOfRange
        ELSE
        LET type        == substr(source, begin, SizeDiff(eol, begin))
            shader_type == string_to_shader_type(type)
        IN  IF ~shader_type.has_value THEN Returned(<< >>)
            ELSE
            LET next == find(source, type_token, next_line_pos)
            IN  IF substr_throws(source, next_line_pos) THEN OutOfRange
                ELSE ParseLoop(source, next,
                        Append(shaders,
                               [type   |-> shader_type.value,
                                source |-> IF next = NPos
                                           THEN substr(source, next_line_pos, NPos)
                                           ELSE substr(source, next_line_pos,
                                                       SizeDiff(next, next_line_pos))]))

\* ShaderProgram::parse_shaders(source)
parse_shaders(source) == ParseLoop(source, find(source, type_token, 0), << >>)

(* ------------------- ShaderProgram: uniform locations ------------------- *)

\* The names a caller uploads uniforms by. The linked program has two active
\* uniforms; glGetUniformLocation answers -1 for any other name.
UniformNames == {"u_color", "u_mvp", "u_none"}

glGetUniformLocation(text) ==
    CASE text = "u_color" -> 0
      [] text = "u_mvp"   -> 1
      [] OTHER            -> -1

\* std::string_view name: the characters the view shows and the storage they
\* lie in. A string literal lives as long as the program; a temporary
\* std::string (a name put together for the call) is destroyed when the
\* call has returned.
Storages == {"literal", "temporary"}
NameViews == [text : UniformNames, storage : Storages]

\* std::unordered_map<std::string_view, int> uniform_cache_: the key of an
\* entry is the view handed to uniform_location, not a copy of its
\* characters. Between two calls the key of an entry made from a temporary
\* points into storage that is gone.
Dangling(entry) == entry.key.storage = "temporary"

\* uniform_cache_.find(name): the entries the lookup may end at, and
\* whether it may end at none. A key in live storage compares equal exactly
\* when its characters are those of name; comparing a dangling key reads
\* whatever its storage holds by now, so such an entry may or may not match.
find_entries(uniform_cache_, name) ==
    {e \in uniform_cache_ : Dangling(e) \/ e.key.text = name.text}

find_may_miss(uniform_cache_, name) ==
    \A e \in uniform_cache_ : Dangling(e) \/ e.key.text # name.text

\* uniform_location(name): the outcomes [cache, location, queried] of one
\* call. Found: the location of the entry, no query. Not found: the location
\* is queried and stored under the view.
uniform_location(uniform_cache_, name) ==
    {[cache |-> uniform_cache_, location |-> e.location, queried |-> FALSE] :
        e \in find_entries(uniform_cache_, name)}
    \cup
    (IF find_may_miss(uniform_cache_, name)
     THEN {[cache    |-> uniform_cache_ \cup
                           {[key |-> name,
                             location |-> glGetUniformLocation(name.text)]},
            location |-> glGetUniformLocation(name.text),
            queried  |-> TRUE]}
     ELSE {})

(* ------------------------------ Application ----------------------------- *)

\* what a layer callback may do with the application it belongs to
Reactions == {"nothing", "close", "push_layer"}

\* the calls a frame makes, in the order it makes them
Polled == <<"glfwPollEvents", 0>>
Updated(layer) == <<"on_update", layer>>
UiUpdated(layer) == <<"on_ui_update", layer>>

\* close(): is_running = false. closing and preclosed remember whether the
\* call came from a frame of run() or before run().
close(a) ==
    [a EXCEPT !.is_running = FALSE,
              !.closing = (a.pc \in {"update", "ui"}) \/ @,
              !.closed_in = IF a.pc \in {"update", "ui"} /\ ~a.closing
                            THEN a.frames + 1 ELSE @,
              !.preclosed = (a.pc = "idle") \/ @]

\* push_layer(): layer_stack_.emplace_back(layer); layer->on_start(). The
\* layer is a new object. When the vector has to grow while a loop of run()
\* walks it, the loop's iterators point into the storage just released.
push_layer(a, grown) ==
    LET layer == Len(a.layer_stack_) + 1
    IN  [a EXCEPT !.layer_stack_ = Append(@, layer),
                  !.capacity = grown,
                  !.invalid = (a.pc \in {"update", "ui"} /\ grown # a.capacity) \/ @,
                  !.starts = [@ EXCEPT ![layer] = @ + 1]]

\* the capacities the vector may have after one more element:
\* std::vector::emplace_back on a full vector moves the elements to new
\* storage, which has room for the new size or for twice the old one
Capacities(a) ==
    LET n == Len(a.layer_stack_)
    IN  IF n < a.capacity
        THEN {a.capacity}
        ELSE {n + 1} \cup {c \in {2 * n} : c > n}

\* the application after a layer callback has reacted
React(a, reaction) ==
    CASE reaction = "nothing"    -> {a}
      [] reaction = "close"      -> {close(a)}
      [] reaction = "push_layer" ->
            IF Len(a.layer_stack_) < MaxLayers
            THEN {push_layer(a, c) : c \in Capacities(a)}
            ELSE {}

\* run() that leaves is_running as it finds it
run_keeps_is_running(a) == [a EXCEPT !.pc = "head"]

\* run(): is_running = true, then the loop condition
run(a) == [a EXCEPT !.is_running = TRUE, !.pc = "head"]

\* while (!glfwWindowShouldClose(window_) && is_running)
loop_condition(a) == ~a.should_close /\ a.is_running

\* for (auto& layer : layer_stack_): begin() and end() are taken once
range_for(a, pc) ==
    [a EXCEPT !.pc = pc, !.it = 1, !.end = Len(a.layer_stack_), !.invalid = FALSE]

(* ------------------------------- the system ----------------------------- *)

\* the store as its operations see it
Store == [gl |-> gl, id |-> id_, layout |-> layout_,
          capacity |-> capacity_, count |-> count_]

SetStore(st) ==
    /\ gl' = st.gl
    /\ id_' = st.id
    /\ layout_' = st.layout
    /\ capacity_' = st.capacity
    /\ count_' = st.count

\* layouts a store is created with
Layouts == {VertexBufferLayout(<<VertexAttribute("f32", "a")>>),
            VertexBufferLayout(<<VertexAttribute("vec2", "a")>>)}

\* initial data: its length decides what the constructor does, its values
\* are never live records (count_ starts at 0)
InitData == {[k \in 1..n |-> DefaultValue] : n \in 0..MaxInitFloats}

\* the records of exactly one instance a caller passes
Records(layout) == [1..stride_elements(layout) -> Values]

DefaultRecord(layout) == [k \in 1..stride_elements(layout) |-> DefaultValue]

\* the indices a caller passes
Indices == {-1, 0, 1, count_ - 1, count_}

Constructed == id_ # 0

CallsLeft == hist.adds + hist.updates + hist.deletes < MaxCalls

\* SpecMove: the store objects of the program
StoreNames == {"a", "b"}

\* a store object before its construction
NoStore == [life |-> "unborn", id |-> 0, layout |-> VertexBufferLayout(<< >>),
            capacity |-> 0, count |-> 0]

\* mlast: the latest operation of SpecMove, the objects it was made on,
\* whether it deleted a buffer, and the number of operations and of
\* add_instance calls made so far
NoMove == [op |-> "none", src |-> "a", dst |-> "a", freed |-> FALSE,
           n |-> 0, adds |-> 0]

\* SpecWrap: the wrapper objects of the program
WrapNames == {"x", "y"}

\* a wrapper object before its construction; m holds its data members
NoWrapper == [life |-> "unborn", cls |-> "none", m |-> DefaultMembers]

\* the graphics context of SpecWrap
Ctx == [gl |-> gl, names |-> names]

Did(op, src, dst) == [op |-> op, src |-> src, dst |-> dst]

\* SpecLayout: the names and the attributes a layout is built from
FieldNames == {"pos", "uv"}

Fields ==
    {VertexAttribute(type, "pos") : type \in U_Type}
    \cup {VertexAttribute("vec2", "uv")}
    \cup {VertexAttributeArr(in_type, "uv", 2) : in_type \in ShaderArrayType}

FieldLists == UNION {[1..n -> Fields] : n \in 0..MaxFields}

\* the uniform buffer before its construction; fields is the list its
\* layout was built from
NoUbo == [made |-> FALSE, fields |-> << >>,
          self |-> [id |-> 0, layout |-> VertexBufferLayout(<< >>),
                    attr_cache |-> EmptyCache]]

\* look: the latest call of set_attribute_data, its argument, whether it
\* threw and the attribute it found
NoLookup == [op |-> "none", name |-> "", index |-> 0, thrown |-> FALSE,
             attr |-> VertexAttribute("f32", "")]

\* SpecFbo: the framebuffer objects of the program
FboNames == {"f", "g"}

\* a framebuffer object before its construction
NoFbo == [made |-> FALSE,
          self |-> [id_ |-> 0, attachment_ |-> "NONE",
                    renderbuffer_ |-> NoRenderbuffer]]

\* the latest call made on a framebuffer object and its attachment argument
FboCall(op, obj, arg) == [op |-> op, obj |-> obj, attachment |-> arg]

FboInit == [objs |-> [o \in FboNames |-> NoFbo],
            call |-> FboCall("none", "f", "NONE")]

\* SpecParse: the pieces a shader source is written from: tags with a known
\* and with an unknown type name, the bare token, line ends and other text
Pieces == {type_token \o <<" ">> \o ShaderTypeNames["vertex"],
           type_token \o <<" ">> \o ShaderTypeNames["fragment"],
           type_token \o <<" ">> \o <<"p", "i", "x", "e", "l">>,
           type_token,
           <<LF>>, <<CR>>, <<"x">>}

RECURSIVE Concat(_)
Concat(pieces) ==
    IF pieces = << >> THEN << >> ELSE Head(pieces) \o Concat(Tail(pieces))

Sources == {Concat(pieces) : pieces \in UNION {[1..n -> Pieces] : n \in 0..MaxPieces}}

\* no source parsed yet
NoParse == [done |-> FALSE, source |-> << >>, result |-> Returned(<< >>)]

\* no shader program yet. queries counts the glGetUniformLocation calls made
\* for each name, first holds the location the first of them returned (it is
\* empty before), and op, name, queried, location describe the latest upload.
NoProgram == [made |-> FALSE, uniform_cache_ |-> {}, uploads |-> 0,
              queries |-> [n \in UniformNames |-> 0],
              first |-> [n \in UniformNames |-> {}],
              op |-> "none", name |-> [text |-> "u_none", storage |-> "literal"],
              queried |-> FALSE, location |-> -1]

\* the application after its constructor: no layer, run() not called. pc is
\* the position of run(), it and end are the iterators of its current loop,
\* log holds the calls of the current frame and at_poll the number of layers
\* the frame started with; starts counts the on_start calls of each layer.
AppInit == [is_running |-> FALSE, layer_stack_ |-> << >>, capacity |-> 0,
            pc |-> "idle", it |-> 1, end |-> 0, invalid |-> FALSE,
            should_close |-> FALSE, frames |-> 0, log |-> << >>, at_poll |-> 0,
            starts |-> [l \in 1..MaxLayers |-> 0],
            closing |-> FALSE, closed_in |-> 0, preclosed |-> FALSE]

\* last: the latest call, its arguments and its return value (0 for void)
NoCall == [op |-> "none", index |-> 0, rec |-> << >>, ret |-> 0, grew |-> FALSE]

\* hist records how the store was made and used: the number of floats of
\* initial data (-1 before construction) and the calls made since
Init ==
    /\ gl = GLInit
    /\ id_ = 0
    /\ layout_ = VertexBufferLayout(<< >>)
    /\ capacity_ = 0
    /\ count_ = 0
    /\ last = NoCall
    /\ crashed = FALSE
    /\ hist = [init |-> -1, adds |-> 0, deletes |-> 0, updates |-> 0]
    /\ stores = [o \in StoreNames |-> NoStore]
    /\ mlast = NoMove
    /\ wrappers = [o \in WrapNames |-> NoWrapper]
    /\ names = NamesInit
    /\ wlast = Did("none", "x", "x")
    /\ ubo = NoUbo
    /\ look = NoLookup
    /\ fbo = FboInit
    /\ fbgl = FbGLInit
    /\ parsed = NoParse
    /\ prog = NoProgram
    /\ app = AppInit

Construct ==
    /\ ~Constructed
    /\ \E instance_data \in InitData, layout \in Layouts :
          /\ SetStore(VertexBufferInst(gl, instance_data, layout))
          /\ hist' = [hist EXCEPT !.init = Len(instance_data)]
    /\ last' = [NoCall EXCEPT !.op = "create"]
    /\ UNCHANGED <<crashed, others>>

\* VertexBufferInst(instance_data): the layout is VertexBufferLayout{}
ConstructNoLayout ==
    /\ ~Constructed
    /\ \E instance_data \in InitData :
          /\ SetStore(VertexBufferInst(gl, instance_data, VertexBufferLayout(<< >>)))
          /\ hist' = [hist EXCEPT !.init = Len(instance_data)]
    /\ last' = [NoCall EXCEPT !.op = "create"]
    /\ UNCHANGED <<crashed, others>>

AddInstanceWith(instance_data) ==
    /\ Constructed /\ ~crashed
    /\ SetStore(add_instance(Store, instance_data))
    /\ last' = [op |-> "add", index |-> count_, rec |-> instance_data, ret |-> 0,
                grew |-> must_grow(count_, layout_, capacity_)]
    /\ hist' = [hist EXCEPT !.adds = @ + 1]
    /\ UNCHANGED <<crashed, others>>

UpdateInstance ==
    /\ Constructed /\ ~crashed
    /\ CallsLeft
    /\ hist' = [hist EXCEPT !.updates = @ + 1]
    /\ \E index \in Indices : \E instance_data \in Records(layout_) :
          /\ gl' = update_instance(gl, id_, index, instance_data)
          /\ last' = [op |-> "update", index |-> index, rec |-> instance_data,
                       ret |-> 0, grew |-> FALSE]
    /\ UNCHANGED <<id_, layout_, capacity_, count_, crashed, others>>

DeleteInstanceWith(index) ==
    /\ Constructed /\ ~crashed
    /\ hist' = [hist EXCEPT !.deletes = @ + 1]
    /\ UNCHANGED others
    /\ IF delete_out_of_range(index, count_)
       THEN /\ last' = [NoCall EXCEPT !.op = "delete", !.index = index,
                                        !.ret = count_]
            /\ UNCHANGED <<gl, id_, layout_, capacity_, count_, crashed>>
       ELSE \E out \in delete_in_range(Store, index) :
               /\ SetStore(out.st)
               /\ crashed' = out.crashed
               /\ last' = [NoCall EXCEPT !.op = "delete", !.index = index,
                                           !.ret = index]

AddInstance ==
    /\ CallsLeft
    /\ \E instance_data \in Records(layout_) : AddInstanceWith(instance_data)

DeleteInstance ==
    /\ CallsLeft
    /\ \E index \in Indices : DeleteInstanceWith(index)

Next ==
    \/ Construct
    \/ ConstructNoLayout
    \/ AddInstance
    \/ UpdateInstance
    \/ DeleteInstance

Spec == Init /\ [][Next]_vars

\* a store filled with many records: every record is the default record
AddInstanceGrow ==
    /\ hist.adds < MaxGrowAdds
    /\ AddInstanceWith(DefaultRecord(layout_))

DeleteInstanceGrow ==
    /\ hist.deletes < MaxGrowDeletes
    /\ \E index \in Indices : DeleteInstanceWith(index)

NextGrow ==
    \/ Construct
    \/ ConstructNoLayout
    \/ AddInstanceGrow
    \/ DeleteInstanceGrow

SpecGrow == Init /\ [][NextGrow]_vars

\* the store used next to another vertex buffer of the program: the calls of
\* Spec, and the calls that change the GL_ARRAY_BUFFER binding in between

\* the vertices the other buffer is created with
OtherData == {[k \in 1..n |-> DefaultValue] : n \in 0..MaxOtherFloats}

\* VertexBuffer other{vertices}: one other buffer is created
ConstructOther ==
    /\ Constructed /\ ~crashed
    /\ \A b \in BufIds : gl.bufs[b].gen => b = id_
    /\ \E vertices \in OtherData : gl' = VertexBuffer(gl, vertices).gl
    /\ last' = [NoCall EXCEPT !.op = "other"]
    /\ UNCHANGED <<id_, layout_, capacity_, count_, crashed, hist, others>>

\* VertexBuffer::unbind()
Unbind ==
    /\ Constructed /\ ~crashed
    /\ gl' = VertexBuffer_unbind(gl)
    /\ last' = [NoCall EXCEPT !.op = "unbind"]
    /\ UNCHANGED <<id_, layout_, capacity_, count_, crashed, hist, others>>

\* vbo.bind()
Bind ==
    /\ Constructed /\ ~crashed
    /\ gl' = VertexBuffer_bind(gl, id_)
    /\ last' = [NoCall EXCEPT !.op = "bind"]
    /\ UNCHANGED <<id_, layout_, capacity_, count_, crashed, hist, others>>

BaseCallsLeft == hist.adds + hist.deletes < MaxBaseCalls

AddInstanceBase ==
    /\ BaseCallsLeft
    /\ \E instance_data \in Records(layout_) : AddInstanceWith(instance_data)

DeleteInstanceBase ==
    /\ BaseCallsLeft
    /\ \E index \in Indices : DeleteInstanceWith(index)

NextBind ==
    \/ Construct
    \/ AddInstanceBase
    \/ DeleteInstanceBase
    \/ ConstructOther
    \/ Unbind
    \/ Bind

SpecBind == Init /\ [][NextBind]_vars

\* the store used through the public operations it inherits from
\* VertexBuffer: vbo.set_layout(layout)
SetLayout ==
    /\ Constructed /\ ~crashed
    /\ \E layout \in Layouts : SetStore(set_layout(Store, layout))
    /\ last' = [NoCall EXCEPT !.op = "set_layout"]
    /\ UNCHANGED <<crashed, hist, others>>

NextSetLayout ==
    \/ Construct
    \/ AddInstanceBase
    \/ DeleteInstanceBase
    \/ SetLayout

SpecSetLayout == Init /\ [][NextSetLayout]_vars

(* --------------------------- moving the store --------------------------- *)

MoveCallsLeft == mlast.n < MaxMoveCalls

Moved(op, src, dst, freed) ==
    [mlast EXCEPT !.op = op, !.src = src, !.dst = dst, !.freed = freed,
                  !.n = @ + 1]

\* the object o as the store operations see it, and back
AsStore(g, o) == [gl |-> g, id |-> stores[o].id, layout |-> stores[o].layout,
                  capacity |-> stores[o].capacity, count |-> stores[o].count]

AsObject(st) == [life |-> "live", id |-> st.id, layout |-> st.layout,
                 capacity |-> st.capacity, count |-> st.count]

IsLive(o) == stores[o].life = "live"

\* initial data of at most one vec2 record
MoveInitData == {d \in InitData : Len(d) <= stride_elements(
                    VertexBufferLayout(<<VertexAttribute("vec2", "a")>>))}

ConstructStore ==
    /\ MoveCallsLeft
    /\ \E o \in StoreNames :
          /\ stores[o].life = "unborn"
          /\ \E instance_data \in MoveInitData, layout \in Layouts :
                LET st == VertexBufferInst(gl, instance_data, layout)
                IN  /\ gl' = st.gl
                    /\ stores' = [stores EXCEPT ![o] = AsObject(st)]
          /\ mlast' = Moved("construct", o, o, FALSE)
    /\ UNCHANGED notMove

AddToStore ==
    /\ MoveCallsLeft
    /\ mlast.adds < MaxMoveAdds
    /\ \E o \in StoreNames :
          /\ IsLive(o)
          /\ LET st == add_instance(AsStore(gl, o),
                                    DefaultRecord(stores[o].layout))
             IN  /\ gl' = st.gl
                 /\ stores' = [stores EXCEPT ![o] = AsObject(st)]
          /\ mlast' = [Moved("add", o, o, FALSE) EXCEPT !.adds = @ + 1]
    /\ UNCHANGED notMove

\* VertexBufferInst dst{std::move(src)}
MoveConstructStore ==
    /\ MoveCallsLeft
    /\ \E src, dst \in StoreNames :
          /\ IsLive(src)
          /\ stores[dst].life = "unborn"
          /\ LET m == VertexBufferInst_move(stores[src])
             IN  stores' = [stores EXCEPT ![dst] = AsObject(m.self),
                                          ![src] = m.other]
          /\ mlast' = Moved("move_construct", src, dst, FALSE)
    /\ UNCHANGED <<gl, notMove>>

\* dst = std::move(src); nothing is done when dst and src are one object
MoveAssignStore ==
    /\ MoveCallsLeft
    /\ \E src, dst \in StoreNames :
          /\ IsLive(src) /\ IsLive(dst)
          /\ IF src = dst
             THEN UNCHANGED <<gl, stores>>
             ELSE LET m == VertexBufferInst_move_assign(gl, stores[dst],
                                                        stores[src])
                  IN  /\ gl' = m.gl
                      /\ stores' = [stores EXCEPT ![dst] = m.self,
                                                   ![src] = m.other]
          /\ mlast' = Moved("move_assign", src, dst,
                            src # dst /\ stores[dst].id # 0)
    /\ UNCHANGED notMove

\* the end of the lifetime of a store object
DestroyStore ==
    /\ MoveCallsLeft
    /\ \E o \in StoreNames :
          /\ IsLive(o)
          /\ gl' = VertexBuffer_dtor(gl, stores[o].id)
          /\ stores' = [stores EXCEPT ![o] = [NoStore EXCEPT !.life = "dead"]]
          /\ mlast' = Moved("destroy", o, o, stores[o].id # 0)
    /\ UNCHANGED notMove

NextMove ==
    \/ ConstructStore
    \/ AddToStore
    \/ MoveConstructStore
    \/ MoveAssignStore
    \/ DestroyStore

SpecMove == Init /\ [][NextMove]_vars

(* ------------------------- owning native objects ------------------------ *)

WLive(o) == wrappers[o].life = "live"

SetCtx(c) == gl' = c.gl /\ names' = c.names

\* Class obj{...}: for a ShaderProgram the program links or does not
ConstructWrapper ==
    /\ \E o \in WrapNames, cls \in WrapperClasses, linked \in BOOLEAN :
          /\ wrappers[o].life = "unborn"
          /\ LET r == Ctor(cls, Ctx, linked)
             IN  /\ SetCtx(r.c)
                 /\ wrappers' = [wrappers EXCEPT ![o] =
                        [life |-> "live", cls |-> cls, m |-> r.self]]
          /\ wlast' = Did("construct", o, o)
    /\ UNCHANGED notWrap

\* Class obj; for the classes with a defaulted default constructor
DefaultConstructWrapper ==
    /\ \E o \in WrapNames, cls \in DefaultConstructible :
          /\ wrappers[o].life = "unborn"
          /\ wrappers' = [wrappers EXCEPT ![o] =
                 [life |-> "live", cls |-> cls, m |-> DefaultMembers]]
          /\ wlast' = Did("default_construct", o, o)
    /\ UNCHANGED <<gl, names, notWrap>>

\* Class dst{src}
CopyConstructWrapper ==
    /\ \E src, dst \in WrapNames :
          /\ WLive(src) /\ wrappers[src].cls \in Copyable
          /\ wrappers[dst].life = "unborn"
          /\ wrappers' = [wrappers EXCEPT ![dst] =
                 [life |-> "live", cls |-> wrappers[src].cls,
                  m |-> ShaderProgram_copy(wrappers[src].m)]]
          /\ wlast' = Did("copy_construct", src, dst)
    /\ UNCHANGED <<gl, names, notWrap>>

\* dst = src
CopyAssignWrapper ==
    /\ \E src, dst \in WrapNames :
          /\ WLive(src) /\ WLive(dst)
          /\ wrappers[src].cls \in Copyable
          /\ wrappers[dst].cls = wrappers[src].cls
          /\ wrappers' = [wrappers EXCEPT ![dst].m =
                 ShaderProgram_copy_assign(@, wrappers[src].m)]
          /\ wlast' = Did("copy_assign", src, dst)
    /\ UNCHANGED <<gl, names, notWrap>>

\* Class dst{std::move(src)}
MoveConstructWrapper ==
    /\ \E src, dst \in WrapNames :
          /\ WLive(src)
          /\ wrappers[dst].life = "unborn"
          /\ LET r == MoveCtor(wrappers[src].cls, wrappers[src].m)
             IN  wrappers' = [wrappers EXCEPT
                     ![dst] = [life |-> "live", cls |-> wrappers[src].cls,
                               m |-> r.self],
                     ![src].m = r.other]
          /\ wlast' = Did("move_construct", src, dst)
    /\ UNCHANGED <<gl, names, notWrap>>

\* dst = std::move(src); nothing is done when dst and src are one object
MoveAssignWrapper ==
    /\ \E src, dst \in WrapNames :
          /\ WLive(src) /\ WLive(dst)
          /\ wrappers[dst].cls = wrappers[src].cls
          /\ IF src = dst
             THEN UNCHANGED <<gl, names, wrappers>>
             ELSE LET r == MoveAssign(wrappers[src].cls, Ctx, wrappers[dst].m,
                                      wrappers[src].m)
                  IN  /\ SetCtx(r.c)
                      /\ wrappers' = [wrappers EXCEPT ![dst].m = r.self,
                                                      ![src].m = r.other]
          /\ wlast' = Did("move_assign", src, dst)
    /\ UNCHANGED notWrap

\* the end of the lifetime of a wrapper object
DestroyWrapper ==
    /\ \E o \in WrapNames :
          /\ WLive(o)
          /\ SetCtx(Dtor(wrappers[o].cls, Ctx, wrappers[o].m))
          /\ wrappers' = [wrappers EXCEPT ![o].life = "dead",
                                          ![o].m = DefaultMembers]
          /\ wlast' = Did("destroy", o, o)
    /\ UNCHANGED notWrap

NextWrap ==
    \/ ConstructWrapper
    \/ DefaultConstructWrapper
    \/ CopyConstructWrapper
    \/ CopyAssignWrapper
    \/ MoveConstructWrapper
    \/ MoveAssignWrapper
    \/ DestroyWrapper

SpecWrap == Init /\ [][NextWrap]_vars

(* ------------------------- layouts and attributes ----------------------- *)

\* the data of one attribute
AttributeData(attr) ==
    [k \in 1..((size(attr.type) * attr.element_count) \div SizeofFloat)
        |-> DefaultValue]

\* UniformBuffer ubo{VertexBufferLayout{attributes...}, binding_point}
ConstructUbo ==
    /\ ~ubo.made
    /\ \E attributes \in FieldLists :
          LET r == UniformBuffer_ctor_layout(gl, VertexBufferLayout(attributes))
          IN  /\ gl' = r.gl
              /\ ubo' = [made |-> TRUE, fields |-> attributes, self |-> r.self]
    /\ look' = [NoLookup EXCEPT !.op = "create"]
    /\ UNCHANGED notLayout

\* ubo.bind()
BindUbo ==
    /\ ubo.made
    /\ gl' = glBindBuffer(gl, "GL_UNIFORM_BUFFER", ubo.self.id)
    /\ look' = [NoLookup EXCEPT !.op = "bind"]
    /\ UNCHANGED <<ubo, notLayout>>

\* ubo.set_attribute_data(data, name)
SetAttributeDataByName ==
    /\ ubo.made
    /\ \E name \in FieldNames \cup {"none"} :
          LET data == IF name \in DOMAIN ubo.self.attr_cache
                      THEN AttributeData(attr_cache_at(ubo.self, name).attr)
                      ELSE << >>
              r == set_attribute_data_name(gl, ubo.self, data, name)
          IN  /\ gl' = r.gl
              /\ look' = [op |-> "by_name", name |-> name, index |-> 0,
                          thrown |-> r.thrown, attr |-> r.attr]
    /\ UNCHANGED <<ubo, notLayout>>

\* ubo.set_attribute_data(data, attribute_index)
SetAttributeDataByIndex ==
    /\ ubo.made
    /\ \E index \in 0..(Len(ubo.self.layout.m_attributes) - 1) :
          LET data == AttributeData(ubo.self.layout.m_attributes[index + 1])
              r == set_attribute_data_index(gl, ubo.self, data, index)
          IN  /\ gl' = r.gl
              /\ look' = [op |-> "by_index", name |-> "", index |-> index,
                          thrown |-> r.thrown, attr |-> r.attr]
    /\ UNCHANGED <<ubo, notLayout>>

NextLayout ==
    \/ ConstructUbo
    \/ BindUbo
    \/ SetAttributeDataByName
    \/ SetAttributeDataByIndex

SpecLayout == Init /\ [][NextLayout]_vars

(* ------------------------ framebuffer attachments ----------------------- *)

\* FrameBuffer o;
ConstructFbo ==
    \E o \in FboNames :
        /\ ~fbo.objs[o].made
        /\ LET made == FrameBuffer_ctor(Ctx)
           IN  /\ names' = made.c.names
               /\ fbo' = [fbo EXCEPT !.objs[o].made = TRUE,
                                     !.objs[o].self.id_ = made.self.id,
                                     !.call = FboCall("create", o, "NONE")]
        /\ UNCHANGED <<fbgl, notFbo>>

\* o.bind()
BindFbo ==
    \E o \in FboNames :
        /\ fbo.objs[o].made
        /\ fbgl' = glBindFramebuffer(fbgl, fbo.objs[o].self.id_)
        /\ fbo' = [fbo EXCEPT !.call = FboCall("bind", o, "NONE")]
        /\ UNCHANGED <<names, notFbo>>

\* FrameBuffer::unbind(), FrameBuffer::bind_default()
UnbindFbo ==
    /\ fbgl' = glBindFramebuffer(fbgl, 0)
    /\ fbo' = [fbo EXCEPT !.call = FboCall("unbind", "f", "NONE")]
    /\ UNCHANGED <<names, notFbo>>

\* o.set_renderbuffer(res, attachment, samples)
SetRenderbuffer ==
    \E o \in FboNames, a \in FboAttachment :
        /\ fbo.objs[o].made
        /\ LET out == set_renderbuffer(names, fbgl, fbo.objs[o].self, a)
           IN  /\ names' = out.names
               /\ fbgl' = out.fg
               /\ fbo' = [fbo EXCEPT !.objs[o].self = out.self,
                                     !.call = FboCall("set_renderbuffer", o, a)]
        /\ UNCHANGED notFbo

NextFbo ==
    \/ ConstructFbo
    \/ BindFbo
    \/ UnbindFbo
    \/ SetRenderbuffer

SpecFbo == Init /\ [][NextFbo]_vars

(* ----------------------------- shader sources -------------------------- *)

\* shaders_{parse_shaders(util::read_file(path))}: the file holds any text
ParseShaders ==
    /\ ~parsed.done
    /\ \E source \in Sources :
          parsed' = [done |-> TRUE, source |-> source,
                     result |-> parse_shaders(source)]
    /\ UNCHANGED notParse

NextParse == ParseShaders

SpecParse == Init /\ [][NextParse]_vars

(* ---------------------------- uniform uploads --------------------------- *)

\* ShaderProgram(name, shaders): uniform_cache_{} starts empty
ConstructProgram ==
    /\ ~prog.made
    /\ prog' = [prog EXCEPT !.made = TRUE]
    /\ UNCHANGED notUniform

\* set_uniform1i(name, val) and the other set_uniform functions:
\* glUniform*(uniform_location(name), ...)
SetUniform ==
    /\ prog.made
    /\ prog.uploads < MaxUploads
    /\ \E name \in NameViews :
       \E out \in uniform_location(prog.uniform_cache_, name) :
          prog' = [made           |-> TRUE,
                   uniform_cache_ |-> out.cache,
                   uploads        |-> prog.uploads + 1,
                   queries        |-> IF out.queried
                                      THEN [prog.queries EXCEPT ![name.text] = @ + 1]
                                      ELSE prog.queries,
                   first          |-> IF out.queried /\ prog.queries[name.text] = 0
                                      THEN [prog.first EXCEPT ![name.text] = {out.location}]
                                      ELSE prog.first,
                   op             |-> "set_uniform",
                   name           |-> name,
                   queried        |-> out.queried,
                   location       |-> out.location]
    /\ UNCHANGED notUniform

NextUniform == ConstructProgram \/ SetUniform

SpecUniform == Init /\ [][NextUniform]_vars

(* ------------------------------ the run loop ---------------------------- *)

\* push_layer() called before run()
PushLayer ==
    /\ app.pc = "idle"
    /\ Len(app.layer_stack_) < MaxLayers
    /\ \E c \in Capacities(app) : app' = push_layer(app, c)
    /\ UNCHANGED notApp

\* close() called before run()
Close ==
    /\ app.pc = "idle"
    /\ ~app.preclosed
    /\ app' = close(app)
    /\ UNCHANGED notApp

Run ==
    /\ app.pc = "idle"
    /\ app' = run(app)
    /\ UNCHANGED notApp

\* the loop condition holds: glfwPollEvents() starts the frame. The events it
\* handles may ask the window to close.
PollEvents ==
    /\ app.pc = "head"
    /\ loop_condition(app)
    /\ app.frames < MaxFrames
    /\ \E should_close \in BOOLEAN :
          app' = [range_for(app, "update") EXCEPT
                     !.should_close = should_close,
                     !.log = <<Polled>>,
                     !.at_poll = Len(app.layer_stack_)]
    /\ UNCHANGED notApp

\* the loop condition fails: run() returns
Return ==
    /\ app.pc = "head"
    /\ ~loop_condition(app)
    /\ app' = [app EXCEPT !.pc = "returned"]
    /\ UNCHANGED notApp

\* a loop of run() reads the layer at its iterator and calls it. Reading
\* through an iterator into released storage is undefined: the call crashes
\* or the loop still finds the layers where they were.
Deref(a) == IF a.invalid THEN {"crash", "layer"} ELSE {"layer"}

\* the application after the body of a loop of run() has run once
call_layer(a, callback) ==
    LET layer  == a.layer_stack_[a.it]
        called == [a EXCEPT !.log = Append(@, <<callback, layer>>), !.it = @ + 1]
    IN  UNION {IF outcome = "crash"
               THEN {[a EXCEPT !.pc = "crashed"]}
               ELSE UNION {React(called, reaction) : reaction \in Reactions} :
               outcome \in Deref(a)}

\* layer->on_update(time_step_)
OnUpdate ==
    /\ app.pc = "update"
    /\ app.it <= app.end
    /\ app' \in call_layer(app, "on_update")
    /\ UNCHANGED notApp

\* the first loop is over: ImGui::NewFrame() ... ImGui::Begin()
NewFrame ==
    /\ app.pc = "update"
    /\ app.it > app.end
    /\ app' = range_for(app, "ui")
    /\ UNCHANGED notApp

\* layer->on_ui_update()
OnUiUpdate ==
    /\ app.pc = "ui"
    /\ app.it <= app.end
    /\ app' \in call_layer(app, "on_ui_update")
    /\ UNCHANGED notApp

\* the second loop is over: ImGui::End(), ImGui::Render(),
\* glfwSwapBuffers(window_), and the loop condition is next
SwapBuffers ==
    /\ app.pc = "ui"
    /\ app.it > app.end
    /\ app' = [app EXCEPT !.pc = "head", !.frames = @ + 1, !.invalid = FALSE]
    /\ UNCHANGED notApp

NextApp ==
    \/ PushLayer
    \/ Close
    \/ Run
    \/ PollEvents
    \/ Return
    \/ OnUpdate
    \/ NewFrame
    \/ OnUiUpdate
    \/ SwapBuffers

SpecApp == Init /\ [][NextApp]_vars

(* ------------------------------ observations ---------------------------- *)

\* the words of slot i of the store's buffer in context g; a slot that does
\* not lie inside the buffer has no defined content
SlotIn(g, i) ==
    LET n == stride_elements(layout_) IN
    IF id_ # 0 /\ i >= 0 /\ (i + 1) * n * SizeofFloat <= g.bufs[id_].size
    THEN [k \in 1..n |-> g.bufs[id_].data[i * n + k]]
    ELSE [k \in 1..n |-> Undef]

Slot(i) == SlotIn(gl, i)

Defined(rec) == \A k \in 1..Len(rec) : rec[k] # Undef

\* the byte size of the store's native buffer
AllocSize == gl.bufs[id_].size

\* the step is a call of add_instance, update_instance, delete_instance
AddStep == hist'.adds = hist.adds + 1
UpdateStep == hist'.updates = hist.updates + 1
DeleteStep == hist'.deletes = hist.deletes + 1

\* x = floor(c * phi), phi = (1 + sqrt(5)) / 2: 2x - c <= c * sqrt(5) < 2x + 2 - c
IsFloorTimesPhi(x, c) ==
    /\ 2 * x - c >= 0
    /\ (2 * x - c) * (2 * x - c) <= 5 * c * c
    /\ (2 * x + 2 - c) * (2 * x + 2 - c) > 5 * c * c

\* the step is a move construction or a move assignment between two objects
MoveStep ==
    /\ mlast'.n = mlast.n + 1
    /\ mlast'.op \in {"move_construct", "move_assign"}
    /\ mlast'.src # mlast'.dst

DestroyStep == mlast'.n = mlast.n + 1 /\ mlast'.op = "destroy"

(* --------------------------------- claims ------------------------------- *)

\* C1: in every reachable state of a store, created empty or with initial
\* data, capacity() >= instance_count() * instance_size().
C1_CapacityCoversCount ==
    Constructed => capacity_ >= count_ * stride(layout_)

\* C2: on a store created with no initial data, after N add_instance calls
\* and no delete, instance_count() is N.
C2_CountEqualsAdds ==
    (Constructed /\ hist.init = 0 /\ hist.deletes = 0) => count_ = hist.adds

C2_Witness ==
    /\ hist.init = 0 /\ hist.deletes = 0
    /\ stride(layout_) > 0
    /\ hist.adds = 33 /\ count_ = 33
    /\ last.op = "add" /\ last.grew

\* C3: growth policy. On a store that starts with capacity 0 the first
\* add_instance sets capacity to instance_size() and the second one to
\* 32 * instance_size(); capacity changes only in an add_instance for which
\* (count + 1) * instance_size() > capacity, and every such growth from a
\* capacity other than 0 and instance_size() yields floor(capacity * phi).
C3_GrowthPolicy ==
    [][Constructed =>
        LET s == stride(layout_)
            needed == (count_ + 1) * s > capacity_
        IN  /\ (AddStep /\ hist.init = 0 /\ hist.adds = 0) => capacity_' = s
            /\ (AddStep /\ hist.init = 0 /\ hist.adds = 1 /\ hist.deletes = 0)
                  => capacity_' = 32 * s
            /\ (AddStep /\ needed /\ capacity_ # 0 /\ capacity_ # s)
                  => IsFloorTimesPhi(capacity_', capacity_)
            /\ ~(AddStep /\ needed) => capacity_' = capacity_
    ]_vars

C3_Witness ==
    /\ hist.init = 0
    /\ last.op = "add" /\ last.grew
    /\ stride(layout_) = 4
    /\ count_ = 33
    /\ capacity_ = 207

\* C4: delete_instance(index) with 0 <= index < count writes the record of
\* the last live slot into slot index, decrements count by exactly 1, leaves
\* every other slot below the new count unchanged and returns index.
C4_SwapDelete ==
    [][(DeleteStep /\ last'.index >= 0 /\ last'.index < count_) =>
        /\ Defined(Slot(count_ - 1))
        /\ SlotIn(gl', last'.index) = Slot(count_ - 1)
        /\ count_' = count_ - 1
        /\ \A i \in 0..(count_ - 2) :
              i # last'.index => SlotIn(gl', i) = Slot(i)
        /\ last'.ret = last'.index
    ]_vars

\* C5: delete_instance(index) with index < 0 or index >= count changes
\* neither count nor capacity nor any buffer byte and returns count; count is
\* never negative.
C5_OutOfRangeDeleteIsNoop ==
    /\ [](count_ >= 0)
    /\ [][(DeleteStep /\ (last'.index < 0 \/ last'.index >= count_)) =>
            /\ count_' = count_
            /\ capacity_' = capacity_
            /\ gl'.bufs = gl.bufs
            /\ last'.ret = count_
       ]_vars

C5_Witness ==
    /\ last.op = "delete"
    /\ count_ = 0 /\ hist.adds = 0
    /\ last.index = 0 /\ last.ret = 0

\* C6: a store created with initial data has instance_count() equal to the
\* number of records in the data (byte length / stride); one created without
\* initial data has instance_count() 0.
C6_CountOfInitialData ==
    (last.op = "create" /\ stride(layout_) > 0) =>
        count_ = (hist.init * SizeofFloat) \div stride(layout_)

\* C7: in every reachable state capacity() equals the byte size of the
\* store's native buffer.
C7_CapacityIsAllocation ==
    Constructed => capacity_ = AllocSize

\* C8: a store created without initial data allocates a buffer of at least
\* one record (stride) bytes, and capacity() is that allocation size.
C8_EmptyStoreHoldsOneRecord ==
    (last.op = "create" /\ hist.init = 0) =>
        /\ AllocSize >= stride(layout_)
        /\ capacity_ = AllocSize

\* C8 as amended: a store created without initial data allocates a buffer
\* of 0 bytes, and capacity() is that allocation size, 0.
C8_EmptyStoreHoldsNothing ==
    (last.op = "create" /\ hist.init = 0) =>
        /\ AllocSize = 0
        /\ capacity_ = AllocSize

C8_Witness ==
    /\ last.op = "create" /\ hist.init = 0
    /\ stride(layout_) > 0
    /\ capacity_ = 0

\* C9: add_instance(record) writes the record at byte offset
\* count * instance_size() (count before the call), increments count by
\* exactly 1 and leaves every previously live slot unchanged.
C9_AddAppends ==
    [][AddStep =>
        /\ SlotIn(gl', count_) = last'.rec
        /\ count_' = count_ + 1
        /\ \A i \in 0..(count_ - 1) : SlotIn(gl', i) = Slot(i)
    ]_vars

\* C10: when add_instance grows the buffer, the live records in
\* [0, count * instance_size()) are the same after the growth as before.
C10_GrowthKeepsRecords ==
    [][(AddStep /\ last'.grew) =>
        \A i \in 0..(count_ - 1) : SlotIn(gl', i) = Slot(i)
    ]_vars

\* C11: for 0 <= i < count, update_instance(i, bytes) followed by reading
\* slot i returns exactly bytes; the call changes neither count nor capacity
\* nor the bytes of any other slot.
C11_UpdateWrites ==
    [][(UpdateStep /\ last'.index >= 0 /\ last'.index < count_) =>
        /\ SlotIn(gl', last'.index) = last'.rec
        /\ count_' = count_
        /\ capacity_' = capacity_
        /\ \A i \in 0..(count_ - 1) :
              i # last'.index => SlotIn(gl', i) = Slot(i)
    ]_vars

\* C12: for an in-range delete_instance(index), the value returned is the
\* index of the deleted instance, which is the index the last instance of the
\* buffer had before the deletion (count - 1 as it was before the call).
C12_ReturnsLastIndex ==
    [][(DeleteStep /\ last'.index >= 0 /\ last'.index < count_) =>
        /\ last'.ret = last'.index
        /\ last'.ret = count_ - 1
    ]_vars

\* C13: move-constructing or move-assigning an instance store gives the
\* destination the source's buffer handle, instance count and capacity and
\* leaves the source with handle 0, so destroying the source afterwards does
\* not free the buffer; in no reachable state do two live stores hold the
\* same non-zero handle.
C13_MoveTransfersOwnership ==
    /\ [](\A o, p \in StoreNames :
            (o # p /\ IsLive(o) /\ IsLive(p) /\ stores[o].id # 0)
               => stores[o].id # stores[p].id)
    /\ [](\A o \in StoreNames :
            (IsLive(o) /\ stores[o].id # 0) => gl.bufs[stores[o].id].gen)
    /\ [][MoveStep =>
            LET src == mlast'.src
                dst == mlast'.dst
            IN  /\ stores'[dst].id = stores[src].id
                /\ stores'[dst].count = stores[src].count
                /\ stores'[dst].capacity = stores[src].capacity
                /\ stores'[src].id = 0
       ]_vars
    /\ [][(DestroyStep /\ stores[mlast'.src].id = 0) => gl'.bufs = gl.bufs]_vars

C13_Witness ==
    /\ mlast.op = "destroy" /\ mlast.src = "a" /\ ~mlast.freed
    /\ stores["a"].life = "dead"
    /\ IsLive("b") /\ stores["b"].id # 0
    /\ stores["b"].count = 2
    /\ gl.bufs[stores["b"].id].gen

\* whether the name id of the kind of object class cls wraps is allocated
Allocated(cls, id) ==
    IF KindOf(cls) = "buffer" THEN gl.bufs[id].gen ELSE names[KindOf(cls)][id]

\* C14: for every wrapper class, over any sequence of construct, copy or
\* move-construct, assign and destroy operations, no native resource
\* identifier is deleted more than once and none is deleted while another
\* live wrapper still holds it. A name is deleted only by a wrapper that
\* holds it, so both say: a live wrapper never holds a deleted name.
C14_NoDoubleDelete ==
    \A o \in WrapNames :
        (WLive(o) /\ wrappers[o].m.id # 0)
            => Allocated(wrappers[o].cls, wrappers[o].m.id)

\* C15: once every wrapper object has been destroyed, every identifier that
\* was ever allocated has been deleted, for IndexBuffer, VertexArray,
\* FrameBuffer and RenderBuffer as for VertexBuffer.
C15_NoLeak ==
    (\A o \in WrapNames :
        /\ ~WLive(o)
        /\ wrappers[o].life = "dead" =>
              wrappers[o].cls \in {"IndexBuffer", "VertexArray", "FrameBuffer",
                                   "RenderBuffer", "VertexBuffer"})
    => /\ \A i \in BufIds : ~gl.bufs[i].gen
       /\ \A k \in Kinds : \A i \in BufIds : ~names[k][i]

\* the bytes of the first n fields: the sum of size(kind) * element_count
RECURSIVE SumBytes(_, _)
SumBytes(fields, n) ==
    IF n = 0 THEN 0
    ELSE SumBytes(fields, n - 1) + size(fields[n].type) * fields[n].element_count

\* C16: for every layout built from an ordered field list, stride equals the
\* sum over fields of size(kind) * element_count, and the byte offset of
\* field i equals that sum over the fields before it; [(vec3, pos),
\* (vec2, uv)] gives stride 20, offsets 0 and 12.
C16_PackedLayout ==
    ubo.made =>
        LET layout == ubo.self.layout
            attrs == layout.m_attributes
        IN  /\ Len(attrs) = Len(ubo.fields)
            /\ stride(layout) = SumBytes(ubo.fields, Len(ubo.fields))
            /\ \A i \in 1..Len(attrs) :
                  /\ attrs[i].offset = SumBytes(ubo.fields, i - 1)
                  /\ attrs[i].type = ubo.fields[i].type
                  /\ attrs[i].name = ubo.fields[i].name
            /\ ubo.fields = <<VertexAttribute("vec3", "pos"),
                              VertexAttribute("vec2", "uv")>>
                  => /\ stride(layout) = 20
                     /\ attrs[1].offset = 0
                     /\ attrs[2].offset = 12

C16_Witness ==
    /\ ubo.made
    /\ ubo.fields = <<VertexAttribute("vec3", "pos"), VertexAttribute("vec2", "uv")>>
    /\ stride(ubo.self.layout) = 20
    /\ ubo.self.layout.m_attributes[2].offset = 12

\* the names of the attributes of the uniform buffer's layout
LayoutNames == {ubo.fields[i].name : i \in 1..Len(ubo.fields)}

\* C17: looking up a layout field by a name that is not in the layout fails
\* with an error that is signalled to the caller, and leaves the layout
\* unchanged; looking up by a present name or valid index returns that
\* field.
C17_LookupByName ==
    [][/\ look'.op = "by_name" =>
            /\ ubo' = ubo
            /\ look'.name \notin LayoutNames => (look'.thrown /\ gl' = gl)
            /\ look'.name \in LayoutNames =>
                  /\ ~look'.thrown
                  /\ look'.attr.name = look'.name
                  /\ \E i \in 1..Len(ubo.fields) :
                        look'.attr = ubo.self.layout.m_attributes[i]
       /\ look'.op = "by_index" =>
            /\ ubo' = ubo
            /\ ~look'.thrown
            /\ look'.attr = ubo.self.layout.m_attributes[look'.index + 1]
            /\ look'.attr.name = ubo.fields[look'.index + 1].name
      ]_vars

C17_Witness ==
    /\ look.op = "by_name" /\ look.thrown
    /\ look.name = "uv"
    /\ ubo.fields = <<VertexAttribute("vec3", "pos")>>

\* the contents a slot can have, and the number of slots below n that hold rec
SlotValues == [1..stride_elements(layout_) -> Values \cup {Undef}]

SlotCount(g, n, rec) == Cardinality({i \in 0..(n - 1) : SlotIn(g, i) = rec})

\* C18: after any sequence of add_instance and in-range delete_instance
\* calls, slots 0..count-1 hold exactly the multiset of records that were
\* added and not yet deleted: no gap, no duplicated record and no lost
\* record, including when the deleted index is the last live slot. Step by
\* step: add_instance adds one copy of its record to the multiset of the live
\* slots, an in-range delete_instance(index) removes one copy of the record
\* of slot index, and nothing else changes.
C18_LiveMultiset ==
    [][/\ AddStep =>
            \A rec \in SlotValues :
                SlotCount(gl', count_', rec) =
                    SlotCount(gl, count_, rec) + (IF rec = last'.rec THEN 1 ELSE 0)
       /\ (DeleteStep /\ last'.index >= 0 /\ last'.index < count_) =>
            \A rec \in SlotValues :
                SlotCount(gl', count_', rec) =
                    SlotCount(gl, count_, rec)
                        - (IF rec = Slot(last'.index) THEN 1 ELSE 0)
      ]_vars

\* a step of add_instance that took the growth branch
GrowthStep == AddStep /\ last'.grew

\* the contexts resize_buffer goes through in a growth step from this state
GrowthTrace == resize_steps(gl, id_, count_, layout_, capacity_,
                            calc_capacity(capacity_, stride(layout_)))

\* the scratch buffer a growth step from this state generates
Scratch == GenName(gl)

\* the live byte range [0, count * stride) and the floats it holds in a buffer
LiveBytes == count_ * stride(layout_)

LiveRange(buf) == SubSeq(buf.data, 1, LiveBytes \div SizeofFloat)

C20_OldDeletedNewBound ==
    [][GrowthStep =>
        /\ ~gl'.bufs[id_].gen
        /\ gl'.bufs[id_'].gen
        /\ gl'.bind["GL_ARRAY_BUFFER"] = id_'
    ]_vars

\* C22: whenever add_instance grows the buffer, in any reachable store state
\* (stores created with initial data included), the new capacity is strictly
\* greater than the old capacity and at least (count + 1) * instance_size():
\* a single growth step always makes room for the appended record.
C22_GrowthMakesRoom ==
    [][GrowthStep =>
        /\ capacity_' > capacity_
        /\ capacity_' >= (count_ + 1) * instance_size(Store)
    ]_vars

\* the native buffers that exist in a context
LiveBuffers(g) == {b \in BufIds : g.bufs[b].gen}

\* C23: every native buffer created during a growth step that is not the
\* store's buffer afterwards is deleted before add_instance returns: the
\* number of live native buffers attributable to one store is 1 before and
\* after every add_instance, update_instance and delete_instance.
C23_OneBufferPerStore ==
    Constructed => LiveBuffers(gl) = {id_}

\* a store that has grown with records to copy, and has been updated and
\* deleted from
C23_Witness ==
    /\ Constructed
    /\ hist.adds >= 2 /\ hist.deletes >= 1 /\ hist.updates >= 1
    /\ capacity_ > stride(layout_) /\ stride(layout_) > 0
    /\ LiveBuffers(gl) = {id_}

\* C21: delete_instance(index) with an in-range index reads the last record
\* from the store's own buffer, whichever buffer is bound to GL_ARRAY_BUFFER
\* at the time of the call (for example after another VertexBuffer was
\* constructed or bound in between). Checked on stores created empty, where
\* the last live slot does hold a record: the call does not fail, the record
\* it stores in slot index is the record of the last live slot of the
\* store's buffer, and it leaves no other buffer mapped.
C21_ReadsOwnBuffer ==
    [][(DeleteStep /\ hist.init = 0
            /\ last'.index >= 0 /\ last'.index < count_) =>
        /\ ~crashed'
        /\ SlotIn(gl', last'.index) = Slot(count_ - 1)
        /\ \A b \in BufIds : gl'.bufs[b].map = gl.bufs[b].map
    ]_vars

\* C24: the record size of a store is fixed at creation: instance_size()
\* returns the same value in every state reachable through the store's
\* public operations (those inherited from VertexBuffer included), so
\* count * instance_size() always addresses the same slots.
C24_RecordSizeFixed ==
    [][Constructed => instance_size(Store)' = instance_size(Store)]_vars

\* the step is a call of set_renderbuffer, made on the object fbo'.call.obj
SetRenderbufferStep == fbo' # fbo /\ fbo'.call.op = "set_renderbuffer"

\* the renderbuffers that exist in the context
LiveRenderbuffers(n) == {i \in BufIds : n["renderbuffer"][i]}

\* C25: after set_renderbuffer(res, FboAttachment::NONE) the framebuffer
\* holds no renderbuffer (get_renderbuffer() is empty and attachment() is
\* NONE); in every reachable state attachment() is NONE exactly when the
\* framebuffer holds no renderbuffer, and setting a new renderbuffer destroys
\* the previously held one.
C25_NoneHoldsNoRenderbuffer ==
    [][SetRenderbufferStep =>
        LET o      == fbo'.call.obj
            before == fbo.objs[o].self
            after  == fbo'.objs[o].self
        IN  /\ fbo'.call.attachment = "NONE" =>
                  /\ ~get_renderbuffer(after).has
                  /\ attachment(after) = "NONE"
            /\ \A q \in FboNames :
                  attachment(fbo'.objs[q].self) = "NONE"
                      <=> ~get_renderbuffer(fbo'.objs[q].self).has
            /\ (fbo'.call.attachment # "NONE" /\ get_renderbuffer(before).has) =>
                  LiveRenderbuffers(names') \ {get_renderbuffer(after).id}
                      = LiveRenderbuffers(names) \ {get_renderbuffer(before).id}
    ]_vars

\* the #type tags of a source: the positions of the token, the name each tag
\* gives (the rest of its line after the token and one separator) and the
\* number of tags before a tag
TagPositions(source) ==
    {i \in 0..(Len(source) - Len(type_token)) :
        SubSeq(source, i + 1, i + Len(type_token)) = type_token}

LineEnd(source, i) ==
    LET ends == {j \in i..(Len(source) - 1) : source[j + 1] \in {CR, LF}}
    IN  IF ends = {} THEN Len(source)
        ELSE CHOOSE j \in ends : \A k \in ends : j <= k

TagName(source, i) ==
    SubSeq(source, i + Len(type_token) + 2, LineEnd(source, i))

Recognised(name) == \E t \in DOMAIN ShaderTypeNames : ShaderTypeNames[t] = name

TagsBefore(source, i) == Cardinality({j \in TagPositions(source) : j < i})

\* C26: if any #type tag in a shader source names a shader type that is not
\* recognised, parse_shaders returns an empty vector, discarding any shaders
\* already parsed from earlier tags; if every tag is recognised it returns
\* one shader per tag, in source order.
C26_ParseShaders ==
    parsed.done =>
        LET source == parsed.source
            tags   == TagPositions(source)
        IN  IF \E i \in tags : ~Recognised(TagName(source, i))
            THEN parsed.result = Returned(<< >>)
            ELSE /\ ~parsed.result.thrown
                 /\ Len(parsed.result.shaders) = Cardinality(tags)
                 /\ \A i \in tags :
                       ShaderTypeNames[
                           parsed.result.shaders[TagsBefore(source, i) + 1].type]
                         = TagName(source, i)

\* C27: a shader program asks the graphics API for the location of a uniform
\* at most once per distinct uniform name, and every upload to a name uses
\* the location the first query for that name returned (-1 included).
C27_LocationQueriedOnce ==
    /\ \A n \in UniformNames : prog.queries[n] <= 1
    /\ prog.op = "set_uniform" => prog.first[prog.name.text] = {prog.location}

\* the calls of a frame over the given layers: the poll, on_update on each
\* layer in order, then on_ui_update on each layer in order
FrameOf(layers) ==
    <<Polled>> \o [i \in 1..Len(layers) |-> Updated(layers[i])]
               \o [i \in 1..Len(layers) |-> UiUpdated(layers[i])]

\* the layers a frame has called
Called(log) == {log[i][2] : i \in {j \in 1..Len(log) : log[j] # Polled}}

\* C28: every frame of run() polls the events first, then calls on_update
\* once on every pushed layer in push order and, after all of them, calls
\* on_ui_update once on every layer in push order; every layer has received
\* on_start exactly once, when it was pushed, before its first on_update.
\* The layers of a frame are those pushed before some moment of the frame.
C28_FrameOrder ==
    /\ (app.pc \in {"head", "returned"} /\ app.frames > 0) =>
          \E n \in app.at_poll..Len(app.layer_stack_) :
             app.log = FrameOf(SubSeq(app.layer_stack_, 1, n))
    /\ \A i \in 1..Len(app.layer_stack_) : app.starts[app.layer_stack_[i]] = 1
    /\ \A l \in Called(app.log) : app.starts[l] = 1

\* a step of run(): a frame starts, run() returns
FrameStarts == app.pc = "head" /\ app'.pc = "update"
RunReturns == app.pc # "returned" /\ app'.pc = "returned"

\* C29: after close() has been called from a layer callback during a frame,
\* run() starts no other frame and returns only once that frame is complete;
\* run() starts no frame once the window reports it should close; and run()
\* returns for these two reasons only, so that a close() made before run()
\* does not keep it from looping.
C29_CloseEndsRun ==
    [][/\ FrameStarts => (~app.closing /\ ~app.should_close)
       /\ RunReturns =>
             /\ app.pc = "head"
             /\ app.closing \/ app.should_close
             /\ app.closing => app.frames = app.closed_in
       /\ (app.pc = "head" /\ (app.closing \/ app.should_close)) =>
             app'.pc = "returned"]_vars

\* close() before run(), two frames, close() from a callback of the second
\* one, and run() has returned after that frame
C29_Witness ==
    /\ app.preclosed
    /\ app.closing
    /\ app.closed_in = 2
    /\ app.pc = "returned"
    /\ app.frames = 2

====
